---- MODULE Spec2Model ----
(***************************************************************************)
(* Model of the Entity-Component-System runtime of the game engine:        *)
(* World (entity registry, component store, system registry, update loop), *)
(* System (membership cache, query matching, guarded update hooks),        *)
(* Entity and Component (liveness, timestamps, owner back-reference).      *)
(***************************************************************************)
EXTENDS Integers, Sequences, FiniteSets, TLC

\* ------------------------------------------------------------------------
\* Bounds of the model
\* ------------------------------------------------------------------------
MaxEntities == 2

MaxDt == 3

MaxNow == 1

MaxQueryLen == 2

\* the number of World and System operations in a run
MaxOps == 5

\* ------------------------------------------------------------------------
\* Program constants and fixtures
\* ------------------------------------------------------------------------
\* World constructor parameter fixedTimeStep, in clock ticks
FixedTimeStep == 2

EntityIds == 1..MaxEntities

\* the Component instances of the pool, each given by its class name
ComponentTypeTable == <<"A", "B", "A">>

CompIds == DOMAIN ComponentTypeTable

\* the component type names that removeComponent is called with
TypeNames == {"A", "B"}

\* every type name a query may mention
QueryTypes == {"A", "B", "C"}

\* Component.getComponentType: the class name of the instance
getComponentType(c) == ComponentTypeTable[c]

\* an optional array-valued clause of a SystemQuery
NoClause == [present |-> FALSE, items |-> <<>>]

Clause(items) == [present |-> TRUE, items |-> items]

\* the System instances of the pool: constructor arguments name, priority, query
SystemNameTable == <<"s1", "s2", "s1", "s3">>

SystemPriorityTable == <<"low", "normal", "normal", "critical">>

SystemQueryTable ==
  << [all |-> Clause(<<"A">>), any |-> NoClause, none |-> NoClause],
     [all |-> NoClause, any |-> NoClause, none |-> Clause(<<"B">>)],
     [all |-> NoClause, any |-> Clause(<<>>), none |-> NoClause],
     [all |-> NoClause, any |-> Clause(<<"B", "A">>), none |-> NoClause] >>

SysIds == DOMAIN SystemNameTable

SystemName(s) == SystemNameTable[s]

SystemPriority(s) == SystemPriorityTable[s]

SystemQuery(s) == SystemQueryTable[s]

\* ------------------------------------------------------------------------
\* Maps (JavaScript Map with primitive keys)
\* ------------------------------------------------------------------------
EmptyMap == [k \in {} |-> 0]

MapPut(m, k, v) == [x \in (DOMAIN m) \cup {k} |-> IF x = k THEN v ELSE m[x]]

MapDel(m, k) == [x \in (DOMAIN m) \ {k} |-> m[x]]

MapValues(m) == {m[k] : k \in DOMAIN m}

SeqElems(q) == {q[i] : i \in 1..Len(q)}

\* Set.add on an insertion-ordered Set
SetAdd(q, x) == IF x \in SeqElems(q) THEN q ELSE Append(q, x)

\* ------------------------------------------------------------------------
\* Query matching
\* ------------------------------------------------------------------------
\* for (const t of items) if (!types.has(t)) return false
RECURSIVE EveryIn(_, _, _)
EveryIn(items, i, types) ==
  IF i > Len(items) THEN TRUE
  ELSE IF items[i] \notin types THEN FALSE
  ELSE EveryIn(items, i + 1, types)

\* for (const t of items) if (types.has(t)) { hasAny = true; break }
RECURSIVE SomeIn(_, _, _)
SomeIn(items, i, types) ==
  IF i > Len(items) THEN FALSE
  ELSE IF items[i] \in types THEN TRUE
  ELSE SomeIn(items, i + 1, types)

\* for (const t of items) if (types.has(t)) return false
RECURSIVE NoneIn(_, _, _)
NoneIn(items, i, types) ==
  IF i > Len(items) THEN TRUE
  ELSE IF items[i] \in types THEN FALSE
  ELSE NoneIn(items, i + 1, types)

\* faulty variant of matchesQuery: an empty any clause rejects every entity
matchesQuery_EmptyAnyFails(q, entityComponents) ==
  IF q.all.present /\ ~EveryIn(q.all.items, 1, entityComponents) THEN FALSE
  ELSE IF q.any.present /\ ~SomeIn(q.any.items, 1, entityComponents) THEN FALSE
  ELSE IF q.none.present /\ ~NoneIn(q.none.items, 1, entityComponents) THEN FALSE
  ELSE TRUE

\* System.matchesQuery(entityComponents) for a system whose _query is q
matchesQuery(q, entityComponents) ==
  IF q.all.present /\ ~EveryIn(q.all.items, 1, entityComponents) THEN FALSE
  ELSE IF q.any.present /\ Len(q.any.items) > 0
          /\ ~SomeIn(q.any.items, 1, entityComponents) THEN FALSE
  ELSE IF q.none.present /\ ~NoneIn(q.none.items, 1, entityComponents) THEN FALSE
  ELSE TRUE

\* World._matchesQuery(componentTypes, query)
World_matchesQuery(componentTypes, query) ==
  IF query.all.present /\ ~EveryIn(query.all.items, 1, componentTypes) THEN FALSE
  ELSE IF query.any.present /\ Len(query.any.items) > 0
          /\ ~SomeIn(query.any.items, 1, componentTypes) THEN FALSE
  ELSE IF query.none.present /\ ~NoneIn(query.none.items, 1, componentTypes) THEN FALSE
  ELSE TRUE

\* ------------------------------------------------------------------------
\* State
\* ------------------------------------------------------------------------
VARIABLES
  entities,         \* World._entities: id -> [active, lastModified]
  components,       \* World._components: id -> (type name -> component instance)
  compOwner,        \* Component._entityId of every component instance (0 = null)
  systems,          \* World._systems: the registered instances in key order
  systemOrder,      \* World._systemOrder
  sysEntities,      \* System._entities of every system instance
  sysActive,        \* System._active
  sysEnabled,       \* System._enabled
  pendingEntities,  \* World._pendingEntities (insertion order)
  pendingRemovals,  \* World._pendingRemovals (insertion order)
  accumulator,      \* World._accumulator
  nextId,           \* the next fresh entity id
  now,              \* the latest reading of performance.now()
  addOrder,         \* registered instances in the order of their addSystem calls
  lastOp,           \* the last operation called, its arguments and its result
  calls,            \* the hooks invoked by the last operation, in order
  ops,              \* the number of operations called so far
  probe,            \* inputs and results of the query matchers and of World.query
  updateCount,      \* System._updateCount of every system instance
  hookLog,          \* the membership hooks fired by direct System calls, in order
  weapon,           \* the fields of one WeaponComponent
  body,             \* one entity of a PhysicsSystem: its transform and physics fields
  royale,           \* a BattleRoyaleSystem and the components of its member entities
  ai,               \* one entity of an AISystem: its AIComponent and what surrounds it
  stepper,          \* the accumulator of one World, held as the double it is
  engine,           \* one Engine: its frame loop and the World it drives
  game              \* the entities of one gameplay system and what it has done to them

\* the state of the classes that are specified on their own
unitVars == <<updateCount, hookLog, weapon, body, royale, ai, stepper, engine, game>>

vars == <<entities, components, compOwner, systems, systemOrder, sysEntities,
          sysActive, sysEnabled, pendingEntities, pendingRemovals, accumulator,
          nextId, now, addOrder, lastOp, calls, ops, probe, unitVars>>

NoOp == [op |-> "init", id |-> 0, comp |-> 0, typ |-> "", sys |-> 0, name |-> "",
         dt |-> 0, thrower |-> 0, passes |-> 0, wasActive |-> FALSE,
         wasPending |-> FALSE, ret |-> "void"]

NoProbe == [types |-> {}, query |-> [all |-> NoClause, any |-> NoClause, none |-> NoClause],
            system |-> FALSE, world |-> FALSE, found |-> <<>>, done |-> FALSE]

Call(s, hook, arg, threw) ==
  [sys |-> s, hook |-> hook, arg |-> arg, threw |-> threw, deltaTime |-> 0]

\* a call of update / fixedUpdate / lateUpdate or of its domain hook, in the
\* pass of that number, with the time step it is given
TimedCall(s, hook, pass, threw, deltaTime) ==
  [sys |-> s, hook |-> hook, arg |-> pass, threw |-> threw, deltaTime |-> deltaTime]

\* no WeaponComponent has been constructed
NoWeapon == [type |-> "none"]

\* no entity has been given to a PhysicsSystem
NoBody == [member |-> FALSE]

\* no BattleRoyaleSystem has been constructed
NoRoyale == [players |-> <<>>]

\* no AIComponent has been constructed
NoAI == [state |-> "none"]

\* no World is being stepped in double arithmetic
NoStepper == [calls |-> 0]

\* no Engine has been constructed
NoEngine == [isRunning |-> FALSE, frames |-> 0]

\* no gameplay system has been constructed
NoGame == [steps |-> 0]

\* the classes specified on their own, as constructed
UnitsInit ==
  /\ updateCount = [s \in SysIds |-> 0]
  /\ hookLog = <<>>
  /\ weapon = NoWeapon
  /\ body = NoBody
  /\ royale = NoRoyale
  /\ ai = NoAI
  /\ stepper = NoStepper
  /\ engine = NoEngine
  /\ game = NoGame

\* new World(): empty registry, store and system list; the pool's System and
\* Component instances are freshly constructed
Init ==
  /\ entities = EmptyMap
  /\ components = EmptyMap
  /\ compOwner = [c \in CompIds |-> 0]
  /\ systems = <<>>
  /\ systemOrder = <<>>
  /\ sysEntities = [s \in SysIds |-> {}]
  /\ sysActive = [s \in SysIds |-> TRUE]
  /\ sysEnabled = [s \in SysIds |-> TRUE]
  /\ pendingEntities = <<>>
  /\ pendingRemovals = <<>>
  /\ accumulator = 0
  /\ nextId = 1
  /\ now = 0
  /\ addOrder = <<>>
  /\ lastOp = NoOp
  /\ calls = <<>>
  /\ ops = 0
  /\ probe = NoProbe
  /\ UnitsInit

\* ------------------------------------------------------------------------
\* System: membership mutation
\* ------------------------------------------------------------------------
\* st = [members: System._entities of every instance, calls: hooks fired so far]

\* faulty variant of addEntity: the hook fires on every call
addEntity_AlwaysFires(st, s, e) ==
  [members |-> [st.members EXCEPT ![s] = @ \cup {e}],
   calls |-> Append(st.calls, Call(s, "onEntityAdded", e, FALSE))]

\* System.addEntity(entityId) on instance s
addEntity(st, s, e) ==
  IF e \notin st.members[s]
  THEN [members |-> [st.members EXCEPT ![s] = @ \cup {e}],
        calls |-> Append(st.calls, Call(s, "onEntityAdded", e, FALSE))]
  ELSE st

\* System.removeEntity(entityId) on instance s
removeEntity(st, s, e) ==
  IF e \in st.members[s]
  THEN [members |-> [st.members EXCEPT ![s] = @ \ {e}],
        calls |-> Append(st.calls, Call(s, "onEntityRemoved", e, FALSE))]
  ELSE st

\* System.hasEntity(entityId) on instance s
hasEntity(members, s, e) == e \in members[s]

\* ------------------------------------------------------------------------
\* World: component-change notification
\* ------------------------------------------------------------------------
\* faulty variant of NotifyOne: a system never drops an entity that stopped
\* matching
NotifyOne_AddOnly(st, s, e, componentTypes) ==
  IF matchesQuery(SystemQuery(s), componentTypes) /\ ~hasEntity(st.members, s, e)
  THEN addEntity(st, s, e)
  ELSE st

\* the body of the loop over this._systems.values() in
\* _notifySystemsOfComponentChange
NotifyOne(st, s, e, componentTypes) ==
  LET matches == matchesQuery(SystemQuery(s), componentTypes)
      has == hasEntity(st.members, s, e)
  IN IF matches /\ ~has THEN addEntity(st, s, e)
     ELSE IF ~matches /\ has THEN removeEntity(st, s, e)
     ELSE st

RECURSIVE NotifyLoop(_, _, _, _, _)
NotifyLoop(st, regd, i, e, componentTypes) ==
  IF i > Len(regd) THEN st
  ELSE NotifyLoop(NotifyOne(st, regd[i], e, componentTypes), regd, i + 1, e, componentTypes)

\* World._notifySystemsOfComponentChange(entityId, ...) given the registry ents,
\* the component store comps, the registered systems regd and memberships members
NotifySystemsOfComponentChange(ents, comps, regd, members, e) ==
  LET st0 == [members |-> members, calls |-> <<>>]
  IN IF e \notin DOMAIN ents \/ ~ents[e].active THEN st0
     ELSE IF e \notin DOMAIN comps THEN st0
     ELSE NotifyLoop(st0, regd, 1, e, DOMAIN comps[e])

\* ------------------------------------------------------------------------
\* World: entity management
\* ------------------------------------------------------------------------
\* World.createEntity: new Entity (fresh id, active, stamped with the clock
\* reading t)
CreateEntity(t) ==
  /\ nextId <= MaxEntities
  /\ now' = t
  /\ entities' = MapPut(entities, nextId, [active |-> TRUE, lastModified |-> t])
  /\ components' = MapPut(components, nextId, EmptyMap)
  /\ pendingEntities' = SetAdd(pendingEntities, nextId)
  /\ nextId' = nextId + 1
  /\ lastOp' = [NoOp EXCEPT !.op = "createEntity", !.id = nextId, !.ret = "entity"]
  /\ calls' = <<>>
  /\ UNCHANGED <<compOwner, systems, systemOrder, sysEntities, sysActive, sysEnabled,
                 pendingRemovals, accumulator, addOrder, probe, unitVars>>

\* faulty variant of destroy: the entity is stamped but stays active
destroy_KeepActive(entity, t) == [entity EXCEPT !.lastModified = t]

\* Entity.destroy
destroy(entity, t) == [entity EXCEPT !.active = FALSE, !.lastModified = t]

\* World.destroyEntity(entityId), performance.now() reading t
DestroyEntity(e, t) ==
  /\ IF e \notin DOMAIN entities
     THEN /\ lastOp' = [NoOp EXCEPT !.op = "destroyEntity", !.id = e, !.ret = "false"]
          /\ UNCHANGED <<entities, pendingRemovals, now>>
     ELSE /\ now' = t
          /\ pendingRemovals' = SetAdd(pendingRemovals, e)
          /\ entities' = [entities EXCEPT ![e] = destroy(@, t)]
          /\ lastOp' = [NoOp EXCEPT !.op = "destroyEntity", !.id = e,
                                    !.wasActive = entities[e].active,
                                    !.wasPending = e \in SeqElems(pendingRemovals),
                                    !.ret = "true"]
  /\ calls' = <<>>
  /\ UNCHANGED <<components, compOwner, systems, systemOrder, sysEntities, sysActive,
                 sysEnabled, pendingEntities, accumulator, nextId, addOrder, probe, unitVars>>

\* Entity.activate
activate(entity, t) == [entity EXCEPT !.active = TRUE, !.lastModified = t]

\* Entity.deactivate
deactivate(entity, t) == [entity EXCEPT !.active = FALSE, !.lastModified = t]

\* Entity: set active(value)
setActive(entity, value, t) == [entity EXCEPT !.active = value, !.lastModified = t]

\* Entity: set name(value); the name itself is read by no operation
setName(entity, t) == [entity EXCEPT !.lastModified = t]

\* a method of the Entity that world.getEntity(e) or createEntity returned,
\* called at the clock reading t: the World takes no part in the call
EntityCall(op, e, after, t) ==
  /\ e \in DOMAIN entities
  /\ now' = t
  /\ entities' = [entities EXCEPT ![e] = after]
  /\ lastOp' = [NoOp EXCEPT !.op = op, !.id = e, !.wasActive = entities[e].active]
  /\ calls' = <<>>
  /\ UNCHANGED <<components, compOwner, systems, systemOrder, sysEntities, sysActive,
                 sysEnabled, pendingEntities, pendingRemovals, accumulator, nextId,
                 addOrder, probe, unitVars>>

\* world.getEntity(e).activate()
EntityActivate(e, t) ==
  e \in DOMAIN entities /\ EntityCall("activate", e, activate(entities[e], t), t)

\* world.getEntity(e).deactivate()
EntityDeactivate(e, t) ==
  e \in DOMAIN entities /\ EntityCall("deactivate", e, deactivate(entities[e], t), t)

\* world.getEntity(e).active = value
EntitySetActive(e, value, t) ==
  e \in DOMAIN entities /\ EntityCall("setEntityActive", e, setActive(entities[e], value, t), t)

\* world.getEntity(e).name = value
EntitySetName(e, t) ==
  e \in DOMAIN entities /\ EntityCall("setEntityName", e, setName(entities[e], t), t)

\* World.hasEntity(entityId)
World_hasEntity(e) == e \in DOMAIN entities

\* entityComponents?.get(componentType) in the store comps; 0 stands for
\* undefined
Lookup(comps, e, t) ==
  IF e \in DOMAIN comps /\ t \in DOMAIN comps[e] THEN comps[e][t] ELSE 0

\* World.getComponent(entityId, componentType)
getComponent(e, t) == Lookup(components, e, t)

\* ------------------------------------------------------------------------
\* World: component management
\* ------------------------------------------------------------------------
\* faulty variant of CanAttach: the entity's active flag is not looked at
CanAttach_NoActiveCheck(e) == e \in DOMAIN entities /\ e \in DOMAIN components

\* the guard of World.addComponent: the entity is known, active and has a store
CanAttach(e) ==
  /\ e \in DOMAIN entities
  /\ entities[e].active
  /\ e \in DOMAIN components

\* faulty variant of StoreComponent: a type already present keeps its instance
StoreComponent_KeepFirst(entityComponents, c) ==
  IF getComponentType(c) \in DOMAIN entityComponents
  THEN entityComponents
  ELSE MapPut(entityComponents, getComponentType(c), c)

\* entityComponents.set(componentType, component)
StoreComponent(entityComponents, c) == MapPut(entityComponents, getComponentType(c), c)

\* World.addComponent(entityId, component)
AddComponent(e, c) ==
  /\ IF ~CanAttach(e)
     THEN /\ lastOp' = [NoOp EXCEPT !.op = "addComponent", !.id = e, !.comp = c,
                                    !.ret = "false"]
          /\ calls' = <<>>
          /\ UNCHANGED <<components, compOwner, sysEntities>>
     ELSE LET comps1 == [components EXCEPT ![e] = StoreComponent(@, c)]
              st == NotifySystemsOfComponentChange(entities, comps1, systems, sysEntities, e)
          IN /\ components' = comps1
             /\ compOwner' = [compOwner EXCEPT ![c] = e]
             /\ sysEntities' = st.members
             /\ calls' = st.calls
             /\ lastOp' = [NoOp EXCEPT !.op = "addComponent", !.id = e, !.comp = c,
                                       !.typ = getComponentType(c), !.ret = "true"]
  /\ UNCHANGED <<entities, systems, systemOrder, sysActive, sysEnabled, pendingEntities,
                 pendingRemovals, accumulator, nextId, now, addOrder, probe, unitVars>>

\* World.removeComponent(entityId, componentType)
RemoveComponent(e, t) ==
  /\ IF e \notin DOMAIN components \/ t \notin DOMAIN components[e]
     THEN /\ lastOp' = [NoOp EXCEPT !.op = "removeComponent", !.id = e, !.typ = t,
                                    !.ret = "false"]
          /\ calls' = <<>>
          /\ UNCHANGED <<components, compOwner, sysEntities>>
     ELSE LET c == components[e][t]
              comps1 == [components EXCEPT ![e] = MapDel(@, t)]
              st == NotifySystemsOfComponentChange(entities, comps1, systems, sysEntities, e)
          IN /\ compOwner' = [compOwner EXCEPT ![c] = 0]
             /\ components' = comps1
             /\ sysEntities' = st.members
             /\ calls' = st.calls
             /\ lastOp' = [NoOp EXCEPT !.op = "removeComponent", !.id = e, !.comp = c,
                                       !.typ = t, !.ret = "true"]
  /\ UNCHANGED <<entities, systems, systemOrder, sysActive, sysEnabled, pendingEntities,
                 pendingRemovals, accumulator, nextId, now, addOrder, probe, unitVars>>

\* ------------------------------------------------------------------------
\* World: system management
\* ------------------------------------------------------------------------
priorityOrder == <<"critical", "high", "normal", "low">>

\* priorityOrder.indexOf(priority)
indexOf(priority) == (CHOOSE i \in 1..Len(priorityOrder) : priorityOrder[i] = priority) - 1

\* the comparator of the sort in _updateSystemOrder
Compare(a, b) == indexOf(SystemPriority(a)) - indexOf(SystemPriority(b))

\* faulty variant of InsertSorted: x goes ahead of the elements it ties with
InsertSorted_Unstable(sorted, x) ==
  LET k == Cardinality({i \in 1..Len(sorted) : Compare(sorted[i], x) < 0})
  IN SubSeq(sorted, 1, k) \o <<x>> \o SubSeq(sorted, k + 1, Len(sorted))

\* one insertion of the stable sort: x goes behind every element that does not
\* compare greater than it
InsertSorted(sorted, x) ==
  LET k == Cardinality({i \in 1..Len(sorted) : Compare(sorted[i], x) <= 0})
  IN SubSeq(sorted, 1, k) \o <<x>> \o SubSeq(sorted, k + 1, Len(sorted))

RECURSIVE SortLoop(_, _, _)
SortLoop(values, i, sorted) ==
  IF i > Len(values) THEN sorted
  ELSE SortLoop(values, i + 1, InsertSorted(sorted, values[i]))

\* World._updateSystemOrder: Array.from(this._systems.values()).sort(...)
UpdateSystemOrder(values) == SortLoop(values, 1, <<>>)

\* the position of the key name in the registry, 0 when it is not a key
KeyIndex(regd, name) ==
  IF \E i \in 1..Len(regd) : SystemName(regd[i]) = name
  THEN CHOOSE i \in 1..Len(regd) : SystemName(regd[i]) = name
  ELSE 0

\* this._systems.set(system.name, system): a new key goes last, an existing
\* key keeps its place and gets the new value
RegistrySet(regd, s) ==
  LET k == KeyIndex(regd, SystemName(s))
  IN IF k = 0 THEN Append(regd, s) ELSE [regd EXCEPT ![k] = s]

\* this._systems.delete(systemName)
RegistryDelete(regd, name) == SelectSeq(regd, LAMBDA x : SystemName(x) # name)

\* the order of the addSystem calls that registered the current instances
AddOrderSet(order, regd, s) ==
  IF s \in SeqElems(regd) THEN order
  ELSE Append(SelectSeq(order, LAMBDA x : SystemName(x) # SystemName(s)), s)

\* faulty variant of AddSystem: the instance is appended to the update order
\* in place of a rebuild from the registry
AddSystem_AppendOrder(s) ==
  /\ systems' = RegistrySet(systems, s)
  /\ systemOrder' = Append(systemOrder, s)
  /\ addOrder' = AddOrderSet(addOrder, systems, s)
  /\ calls' = <<Call(s, "onInitialize", 0, FALSE)>>
  /\ lastOp' = [NoOp EXCEPT !.op = "addSystem", !.sys = s, !.name = SystemName(s)]
  /\ UNCHANGED <<entities, components, compOwner, sysEntities, sysActive, sysEnabled,
                 pendingEntities, pendingRemovals, accumulator, nextId, now, probe, unitVars>>

\* World.addSystem(system)
AddSystem(s) ==
  /\ systems' = RegistrySet(systems, s)
  /\ systemOrder' = UpdateSystemOrder(systems')
  /\ addOrder' = AddOrderSet(addOrder, systems, s)
  /\ calls' = <<Call(s, "onInitialize", 0, FALSE)>>
  /\ lastOp' = [NoOp EXCEPT !.op = "addSystem", !.sys = s, !.name = SystemName(s)]
  /\ UNCHANGED <<entities, components, compOwner, sysEntities, sysActive, sysEnabled,
                 pendingEntities, pendingRemovals, accumulator, nextId, now, probe, unitVars>>

\* faulty variant of RemoveSystem: the update order is not rebuilt
RemoveSystem_StaleOrder(name) ==
  /\ LET k == KeyIndex(systems, name)
     IN IF k = 0
        THEN /\ lastOp' = [NoOp EXCEPT !.op = "removeSystem", !.name = name, !.ret = "false"]
             /\ calls' = <<>>
             /\ UNCHANGED <<systems, systemOrder, addOrder>>
        ELSE /\ calls' = <<Call(systems[k], "onShutdown", 0, FALSE)>>
             /\ systems' = RegistryDelete(systems, name)
             /\ addOrder' = SelectSeq(addOrder, LAMBDA x : SystemName(x) # name)
             /\ lastOp' = [NoOp EXCEPT !.op = "removeSystem", !.sys = systems[k],
                                       !.name = name, !.ret = "true"]
             /\ UNCHANGED systemOrder
  /\ UNCHANGED <<entities, components, compOwner, sysEntities, sysActive, sysEnabled,
                 pendingEntities, pendingRemovals, accumulator, nextId, now, probe, unitVars>>

\* World.removeSystem(systemName)
RemoveSystem(name) ==
  /\ LET k == KeyIndex(systems, name)
     IN IF k = 0
        THEN /\ lastOp' = [NoOp EXCEPT !.op = "removeSystem", !.name = name, !.ret = "false"]
             /\ calls' = <<>>
             /\ UNCHANGED <<systems, systemOrder, addOrder>>
        ELSE /\ calls' = <<Call(systems[k], "onShutdown", 0, FALSE)>>
             /\ systems' = RegistryDelete(systems, name)
             /\ systemOrder' = UpdateSystemOrder(systems')
             /\ addOrder' = SelectSeq(addOrder, LAMBDA x : SystemName(x) # name)
             /\ lastOp' = [NoOp EXCEPT !.op = "removeSystem", !.sys = systems[k],
                                       !.name = name, !.ret = "true"]
  /\ UNCHANGED <<entities, components, compOwner, sysEntities, sysActive, sysEnabled,
                 pendingEntities, pendingRemovals, accumulator, nextId, now, probe, unitVars>>

\* World.clear, the loop over this._systems.values(): system.onShutdown?.()
RECURSIVE ShutdownAll(_, _)
ShutdownAll(regd, i) ==
  IF i > Len(regd) THEN <<>>
  ELSE <<Call(regd[i], "onShutdown", 0, FALSE)>> \o ShutdownAll(regd, i + 1)

\* World.clear(): the registry, the store, the systems, their order and the
\* pending sets are emptied; no System is told to drop its entities, and no
\* Component is detached from its entity
WorldClear ==
  /\ calls' = ShutdownAll(systems, 1)
  /\ entities' = EmptyMap
  /\ components' = EmptyMap
  /\ systems' = <<>>
  /\ systemOrder' = <<>>
  /\ pendingEntities' = <<>>
  /\ pendingRemovals' = <<>>
  /\ addOrder' = <<>>
  /\ lastOp' = [NoOp EXCEPT !.op = "clear"]
  /\ UNCHANGED <<compOwner, sysEntities, sysActive, sysEnabled, accumulator, nextId, now,
                 probe, unitVars>>

\* System: set active(value)
SetActive(s, value) ==
  /\ sysActive' = [sysActive EXCEPT ![s] = value]
  /\ lastOp' = [NoOp EXCEPT !.op = "setActive", !.sys = s]
  /\ calls' = <<>>
  /\ UNCHANGED <<entities, components, compOwner, systems, systemOrder, sysEntities,
                 sysEnabled, pendingEntities, pendingRemovals, accumulator, nextId, now,
                 addOrder, probe, unitVars>>

\* System: set enabled(value)
SetEnabled(s, value) ==
  /\ sysEnabled' = [sysEnabled EXCEPT ![s] = value]
  /\ lastOp' = [NoOp EXCEPT !.op = "setEnabled", !.sys = s]
  /\ calls' = <<>>
  /\ UNCHANGED <<entities, components, compOwner, systems, systemOrder, sysEntities,
                 sysActive, pendingEntities, pendingRemovals, accumulator, nextId, now,
                 addOrder, probe, unitVars>>

\* System.isActive
isActive(active, enabled, s) == active[s] /\ enabled[s]

\* ------------------------------------------------------------------------
\* World: the update loop
\* ------------------------------------------------------------------------
\* _processPendingChanges, additions: the loop over this._systems.values()
RECURSIVE AddToMatching(_, _, _, _, _)
AddToMatching(st, regd, i, e, componentTypes) ==
  IF i > Len(regd) THEN st
  ELSE AddToMatching(
         IF matchesQuery(SystemQuery(regd[i]), componentTypes)
         THEN addEntity(st, regd[i], e) ELSE st,
         regd, i + 1, e, componentTypes)

\* _processPendingChanges, additions: the loop over this._pendingEntities
RECURSIVE ProcessAdditions(_, _, _, _, _, _)
ProcessAdditions(st, ents, comps, regd, pend, i) ==
  IF i > Len(pend) THEN st
  ELSE ProcessAdditions(
         IF pend[i] \in DOMAIN ents /\ pend[i] \in DOMAIN comps
         THEN AddToMatching(st, regd, 1, pend[i], DOMAIN comps[pend[i]]) ELSE st,
         ents, comps, regd, pend, i + 1)

\* _processPendingChanges, removals: the loop over this._systems.values()
RECURSIVE RemoveFromAll(_, _, _, _)
RemoveFromAll(st, regd, i, e) ==
  IF i > Len(regd) THEN st
  ELSE RemoveFromAll(removeEntity(st, regd[i], e), regd, i + 1, e)

\* _processPendingChanges, removals: the loop over this._pendingRemovals;
\* w = [members, calls, entities, components]
RECURSIVE ProcessRemovals(_, _, _, _)
ProcessRemovals(w, regd, pend, i) ==
  IF i > Len(pend) THEN w
  ELSE LET st == RemoveFromAll([members |-> w.members, calls |-> w.calls], regd, 1, pend[i])
       IN ProcessRemovals([members |-> st.members, calls |-> st.calls,
                           entities |-> MapDel(w.entities, pend[i]),
                           components |-> MapDel(w.components, pend[i])],
                          regd, pend, i + 1)

\* faulty variant of ProcessPendingChanges: the pending removals are dropped
ProcessPendingChanges_NoRemovals(ents, comps, regd, members, pendE, pendR) ==
  LET st == ProcessAdditions([members |-> members, calls |-> <<>>],
                             ents, comps, regd, pendE, 1)
  IN [members |-> st.members, calls |-> st.calls, entities |-> ents, components |-> comps]

\* World._processPendingChanges
ProcessPendingChanges(ents, comps, regd, members, pendE, pendR) ==
  LET st == ProcessAdditions([members |-> members, calls |-> <<>>],
                             ents, comps, regd, pendE, 1)
  IN ProcessRemovals([members |-> st.members, calls |-> st.calls,
                      entities |-> ents, components |-> comps], regd, pendR, 1)

\* the domain hook that System.update / fixedUpdate / lateUpdate wraps
HookOf(method) ==
  CASE method = "update" -> "onUpdate"
    [] method = "fixedUpdate" -> "onFixedUpdate"
    [] method = "lateUpdate" -> "onLateUpdate"

\* faulty variant of SystemUpdate: no try/catch around the hook
SystemUpdate_NoCatch(s, method, pass, thrower, members, active, enabled, deltaTime) ==
  IF ~active[s] \/ ~enabled[s] \/ Cardinality(members[s]) = 0
  THEN [calls |-> <<TimedCall(s, method, pass, FALSE, deltaTime)>>, thrown |-> FALSE, counted |-> FALSE]
  ELSE [calls |-> <<TimedCall(s, method, pass, FALSE, deltaTime),
                    TimedCall(s, HookOf(method), pass, s = thrower, deltaTime)>>,
        thrown |-> s = thrower,
        counted |-> method = "update" /\ s # thrower]

\* faulty variant of SystemUpdate: a system without members still runs its hook
SystemUpdate_NoEmptyGuard(s, method, pass, thrower, members, active, enabled, deltaTime) ==
  IF ~active[s] \/ ~enabled[s]
  THEN [calls |-> <<TimedCall(s, method, pass, FALSE, deltaTime)>>, thrown |-> FALSE, counted |-> FALSE]
  ELSE [calls |-> <<TimedCall(s, method, pass, FALSE, deltaTime),
                    TimedCall(s, HookOf(method), pass, s = thrower, deltaTime)>>,
        thrown |-> FALSE, counted |-> method = "update"]

\* System.update / fixedUpdate / lateUpdate on instance s: the guard, then the
\* domain hook inside try/catch; thrown tells whether an error leaves the call,
\* counted whether the call went on to _updateCount++ (update only)
SystemUpdate(s, method, pass, thrower, members, active, enabled, deltaTime) ==
  IF ~active[s] \/ ~enabled[s] \/ Cardinality(members[s]) = 0
  THEN [calls |-> <<TimedCall(s, method, pass, FALSE, deltaTime)>>, thrown |-> FALSE, counted |-> FALSE]
  ELSE [calls |-> <<TimedCall(s, method, pass, FALSE, deltaTime),
                    TimedCall(s, HookOf(method), pass, s = thrower, deltaTime)>>,
        thrown |-> FALSE, counted |-> method = "update"]

\* one loop "for (const system of this._systemOrder)" of World.update;
\* r = [calls, thrown]
RECURSIVE RunPass(_, _, _, _, _, _, _, _, _, _)
RunPass(r, order, i, method, pass, thrower, members, active, enabled, deltaTime) ==
  IF r.thrown \/ i > Len(order) THEN r
  ELSE LET u == IF isActive(active, enabled, order[i])
                THEN SystemUpdate(order[i], method, pass, thrower, members, active, enabled,
                                  deltaTime)
                ELSE [calls |-> <<>>, thrown |-> FALSE]
       IN RunPass([calls |-> r.calls \o u.calls, thrown |-> u.thrown],
                  order, i + 1, method, pass, thrower, members, active, enabled, deltaTime)

\* while (this._accumulator >= this._fixedTimeStep) { ... };
\* f = [calls, thrown, accumulator, passes]
RECURSIVE FixedLoop(_, _, _, _, _, _)
FixedLoop(f, order, thrower, members, active, enabled) ==
  IF f.thrown \/ f.accumulator < FixedTimeStep THEN f
  ELSE LET r == RunPass([calls |-> f.calls, thrown |-> FALSE], order, 1,
                        "fixedUpdate", f.passes + 1, thrower, members, active, enabled,
                        FixedTimeStep)
       IN FixedLoop([calls |-> r.calls, thrown |-> r.thrown,
                     accumulator |-> IF r.thrown THEN f.accumulator
                                     ELSE f.accumulator - FixedTimeStep,
                     passes |-> f.passes + 1],
                    order, thrower, members, active, enabled)

\* faulty variant of RunFrame: the late pass runs before the fixed timestep
\* passes
RunFrame_LateFirst(order, thrower, members, active, enabled, acc, dt) ==
  LET u == RunPass([calls |-> <<>>, thrown |-> FALSE], order, 1, "update", 0,
                   thrower, members, active, enabled, dt)
      l == RunPass([calls |-> u.calls, thrown |-> FALSE], order, 1, "lateUpdate",
                   1, thrower, members, active, enabled, dt)
      f == FixedLoop([calls |-> l.calls, thrown |-> FALSE,
                      accumulator |-> acc + dt, passes |-> 0],
                     order, thrower, members, active, enabled)
  IN [calls |-> f.calls, thrown |-> f.thrown, accumulator |-> f.accumulator,
      passes |-> f.passes]

\* World.update after _processPendingChanges: the update pass, the fixed
\* timestep passes, the late pass
RunFrame(order, thrower, members, active, enabled, acc, dt) ==
  LET u == RunPass([calls |-> <<>>, thrown |-> FALSE], order, 1, "update", 0,
                   thrower, members, active, enabled, dt)
      f == IF u.thrown
           THEN [calls |-> u.calls, thrown |-> TRUE, accumulator |-> acc, passes |-> 0]
           ELSE FixedLoop([calls |-> u.calls, thrown |-> FALSE,
                           accumulator |-> acc + dt, passes |-> 0],
                          order, thrower, members, active, enabled)
      l == IF f.thrown THEN [calls |-> f.calls, thrown |-> TRUE]
           ELSE RunPass([calls |-> f.calls, thrown |-> FALSE], order, 1, "lateUpdate",
                        f.passes + 1, thrower, members, active, enabled, dt)
  IN [calls |-> l.calls, thrown |-> l.thrown, accumulator |-> f.accumulator,
      passes |-> f.passes]

\* World.update(deltaTime); the hooks of system thrower, which run in this
\* frame, throw (0: no hook throws). The timing statistics of the World and of
\* the systems are written here and read by no operation of the World; they
\* are followed in SpecSystem only
Update(dt, thrower) ==
  LET w == ProcessPendingChanges(entities, components, systems, sysEntities,
                                 pendingEntities, pendingRemovals)
      r == RunFrame(systemOrder, thrower, w.members, sysActive, sysEnabled,
                    accumulator, dt)
  IN /\ thrower # 0 => /\ isActive(sysActive, sysEnabled, thrower)
                        /\ w.members[thrower] # {}
     /\ entities' = w.entities
     /\ components' = w.components
     /\ sysEntities' = w.members
     /\ pendingEntities' = <<>>
     /\ pendingRemovals' = <<>>
     /\ accumulator' = r.accumulator
     /\ calls' = w.calls \o r.calls
     /\ lastOp' = [NoOp EXCEPT !.op = "update", !.dt = dt, !.thrower = thrower,
                               !.passes = r.passes,
                               !.ret = IF r.thrown THEN "throws" ELSE "void"]
     /\ UNCHANGED <<compOwner, systems, systemOrder, sysActive, sysEnabled, nextId, now,
                    addOrder, probe, unitVars>>

\* the readings performance.now() may give next: the clock never runs back
Readings == now..MaxNow

SystemNames == {SystemNameTable[i] : i \in DOMAIN SystemNameTable}

\* the ids a caller passes: every id the world has issued, and one it has not
\* (all unissued ids miss the same Map lookups)
AskedIds == {e \in EntityIds : e <= nextId}

\* one more operation of the run
Called == ops < MaxOps /\ ops' = ops + 1

Next ==
  \/ Called /\ \E t \in Readings : CreateEntity(t)
  \/ Called /\ \E e \in AskedIds, t \in Readings : DestroyEntity(e, t)
  \/ Called /\ \E e \in AskedIds, c \in CompIds : AddComponent(e, c)
  \/ Called /\ \E e \in AskedIds, t \in TypeNames : RemoveComponent(e, t)
  \/ Called /\ \E s \in SysIds : AddSystem(s)
  \/ Called /\ \E n \in SystemNames : RemoveSystem(n)
  \/ Called /\ \E s \in SeqElems(systems) : SetActive(s, ~sysActive[s])
  \/ Called /\ \E s \in SeqElems(systems) : SetEnabled(s, ~sysEnabled[s])
  \/ Called /\ \E dt \in 0..MaxDt, th \in {0} \cup SeqElems(systemOrder) : Update(dt, th)
  \/ Called /\ \E e \in AskedIds, t \in Readings : EntityActivate(e, t)
  \/ Called /\ \E e \in AskedIds, t \in Readings : EntityDeactivate(e, t)
  \/ Called /\ \E e \in AskedIds, v \in BOOLEAN, t \in Readings : EntitySetActive(e, v, t)
  \/ Called /\ \E e \in AskedIds, t \in Readings : EntitySetName(e, t)
  \/ Called /\ WorldClear

Spec == Init /\ [][Next]_vars

\* ------------------------------------------------------------------------
\* The query matchers on their own
\* ------------------------------------------------------------------------
BoundedSeqs(S, n) == UNION {[1..k -> S] : k \in 0..n}

Clauses == {NoClause} \cup {Clause(items) : items \in BoundedSeqs(QueryTypes, MaxQueryLen)}

\* the queries of the documented example
ExampleQueries ==
  { [all |-> Clause(<<"A", "B">>), any |-> NoClause, none |-> NoClause],
    [all |-> Clause(<<"A", "B", "C">>), any |-> NoClause, none |-> NoClause],
    [all |-> NoClause, any |-> Clause(<<"C", "A">>), none |-> NoClause],
    [all |-> NoClause, any |-> NoClause, none |-> Clause(<<"B">>)] }

Queries == [all : Clauses, any : Clauses, none : Clauses] \cup ExampleQueries

InitQuery ==
  /\ entities = EmptyMap
  /\ components = EmptyMap
  /\ compOwner = [c \in CompIds |-> 0]
  /\ systems = <<>>
  /\ systemOrder = <<>>
  /\ sysEntities = [s \in SysIds |-> {}]
  /\ sysActive = [s \in SysIds |-> TRUE]
  /\ sysEnabled = [s \in SysIds |-> TRUE]
  /\ pendingEntities = <<>>
  /\ pendingRemovals = <<>>
  /\ accumulator = 0
  /\ nextId = 1
  /\ now = 0
  /\ addOrder = <<>>
  /\ lastOp = NoOp
  /\ calls = <<>>
  /\ ops = 0
  /\ probe \in [types : SUBSET QueryTypes, query : Queries,
                system : {FALSE}, world : {FALSE}, found : {<<>>}, done : {FALSE}]
  /\ UnitsInit

\* both matchers are called on the drawn component-type set and query
Match ==
  /\ ~probe.done
  /\ probe' = [probe EXCEPT !.system = matchesQuery(probe.query, probe.types),
                            !.world = World_matchesQuery(probe.types, probe.query),
                            !.done = TRUE]
  /\ UNCHANGED <<entities, components, compOwner, systems, systemOrder, sysEntities,
                 sysActive, sysEnabled, pendingEntities, pendingRemovals, accumulator,
                 nextId, now, addOrder, lastOp, calls, ops, unitVars>>

NextQuery == Match

SpecQuery == InitQuery /\ [][NextQuery]_vars

\* ------------------------------------------------------------------------
\* Properties
\* ------------------------------------------------------------------------
RegisteredSystems == SeqElems(systems)

\* the component types currently attached to entity e
ComponentTypesOf(e) == IF e \in DOMAIN components THEN DOMAIN components[e] ELSE {}

\* in the store comps and the memberships members, the membership of e in s
\* agrees with the query of s
ConsistentIn(comps, members, e, s) ==
  hasEntity(members, s, e)
    <=> matchesQuery(SystemQuery(s), IF e \in DOMAIN comps THEN DOMAIN comps[e] ELSE {})

Consistent(e, s) == ConsistentIn(components, sysEntities, e, s)

\* the step just taken is a call of operation op
IsCall(op) == ops' = ops + 1 /\ lastOp'.op = op

\* the ids that were issued and are no longer in the registry
Purged == {e \in EntityIds : e < nextId /\ e \notin DOMAIN entities}

\* entity e is out of every lookup and of every registered system
Gone(e) ==
  /\ ~World_hasEntity(e)
  /\ \A t \in TypeNames : getComponent(e, t) = 0
  /\ \A s \in RegisteredSystems : ~hasEntity(sysEntities, s, e)

\* C1: after a World.update, for every entity E of the World and every
\* registered system S, S.hasEntity(E) is true exactly when S.matchesQuery of
\* the component types attached to E is true.
C1_MembershipAfterUpdate ==
  lastOp.op = "update" =>
    \A e \in DOMAIN entities : \A s \in RegisteredSystems : Consistent(e, s)

\* the registry, the store, the memberships and the pending removals
Holdings == <<entities, components, sysEntities, pendingRemovals>>

\* C2: once destroyEntity(E) has returned true (E awaits removal), one
\* World.update leaves E a member of no registered system, unknown to hasEntity
\* and without components, and a destroyEntity(E) after that returns false and
\* changes nothing.
C2_DestroyThenUpdate ==
  [][\A e \in EntityIds :
       /\ (IsCall("destroyEntity") /\ lastOp'.id = e /\ lastOp'.ret = "true")
            => e \in SeqElems(pendingRemovals')
       /\ (IsCall("update") /\ e \in SeqElems(pendingRemovals)) => Gone(e)'
       /\ (IsCall("destroyEntity") /\ lastOp'.id = e /\ e \in Purged)
            => (lastOp'.ret = "false" /\ Holdings' = Holdings)]_vars

\* an update has purged a destroyed entity that was a member of a system
C2_Witness ==
  /\ lastOp.op = "update"
  /\ \E i \in 1..Len(calls) :
       /\ calls[i].hook = "onEntityRemoved"
       /\ calls[i].arg \in Purged

\* the {all, any, none} semantics of a query on a set of component types
QueryHolds(q, C) ==
  /\ q.all.present => \A t \in SeqElems(q.all.items) : t \in C
  /\ \/ ~q.any.present
     \/ q.any.items = <<>>
     \/ \E t \in SeqElems(q.any.items) : t \in C
  /\ q.none.present => \A t \in SeqElems(q.none.items) : t \notin C

\* C3: System.matchesQuery and World._matchesQuery both return true exactly
\* when every type of all is present, any is absent or empty or has a type
\* present, and no type of none is present; so they agree on every input, and
\* {A,B} matches {all:[A,B]} and {any:[C,A]} but neither {all:[A,B,C]} nor
\* {none:[B]}.
C3_QuerySemantics ==
  probe.done =>
    /\ probe.system = QueryHolds(probe.query, probe.types)
    /\ probe.world = QueryHolds(probe.query, probe.types)
    /\ (probe.types = {"A", "B"} /\ probe.query \in ExampleQueries) =>
         (probe.system <=> (probe.query.all = Clause(<<"A", "B">>)
                            \/ probe.query.any = Clause(<<"C", "A">>)))

\* the matchers have run on {A,B} against {any:[C,A]} and both matched
C3_Witness ==
  /\ probe.done
  /\ probe.types = {"A", "B"}
  /\ probe.query = [all |-> NoClause, any |-> Clause(<<"C", "A">>), none |-> NoClause]
  /\ probe.system
  /\ probe.world

\* the methods World.update calls on the systems, one pass each
UpdateMethods == {"update", "fixedUpdate", "lateUpdate"}

UpdateHooks == {"onUpdate", "onFixedUpdate", "onLateUpdate"}

\* the position of x in the sequence q, 0 when it is not in it
Pos(q, x) == IF x \in SeqElems(q) THEN CHOOSE i \in 1..Len(q) : q[i] = x ELSE 0

\* the systems World.update called in pass number pass, in call order
Invoked(pass) ==
  LET sel == SelectSeq(calls, LAMBDA c : c.hook \in UpdateMethods /\ c.arg = pass)
  IN [i \in 1..Len(sel) |-> sel[i].sys]

\* in every pass exactly the active registered systems are called, once
\* each, by priority, and systems of equal priority in the order of tie
EveryPassOrdered(tie) ==
  \A pass \in 0..(lastOp.passes + 1) :
    LET inv == Invoked(pass)
    IN /\ SeqElems(inv) = {s \in RegisteredSystems : isActive(sysActive, sysEnabled, s)}
       /\ \A i, j \in 1..Len(inv) :
            i < j =>
              /\ inv[i] # inv[j]
              /\ indexOf(SystemPriority(inv[i])) <= indexOf(SystemPriority(inv[j]))
              /\ SystemPriority(inv[i]) = SystemPriority(inv[j])
                   => Pos(tie, inv[i]) < Pos(tie, inv[j])

\* C4 as stated: in each pass of World.update the active systems are called in
\* the order critical, high, normal, low, and systems of equal priority in the
\* order in which they were added to the World.
C4_OrderOfAddition == lastOp.op = "update" => EveryPassOrdered(addOrder)

\* C4 amended: systems of equal priority are called in the order of their
\* names in the system registry, where a system added under a registered name
\* takes the place of the system it replaces.
C4_OrderOfRegistry == lastOp.op = "update" => EveryPassOrdered(systems)

\* an update has called two systems of equal priority and one of another
C4_Witness ==
  /\ lastOp.op = "update"
  /\ lastOp.passes >= 1
  /\ systems # addOrder
  /\ \E i, j, k \in 1..Len(systemOrder) :
       /\ i < j
       /\ SystemPriority(systemOrder[i]) = SystemPriority(systemOrder[j])
       /\ SystemPriority(systemOrder[k]) # SystemPriority(systemOrder[i])
       /\ \A x \in {i, j, k} : isActive(sysActive, sysEnabled, systemOrder[x])

\* the hook calls World.update makes when no error leaves a system: in every
\* pass each system that is active, enabled and has members, once, in order
RECURSIVE ExpectedHooks(_, _, _, _, _)
ExpectedHooks(runnable, pass, last, thrower, dt) ==
  IF pass > last THEN <<>>
  ELSE [i \in 1..Len(runnable) |->
          TimedCall(runnable[i],
                    IF pass = 0 THEN "onUpdate"
                    ELSE IF pass = last THEN "onLateUpdate" ELSE "onFixedUpdate",
                    pass, runnable[i] = thrower,
                    IF pass = 0 \/ pass = last THEN dt ELSE FixedTimeStep)]
       \o ExpectedHooks(runnable, pass + 1, last, thrower, dt)

\* C5: when a hook throws during World.update the error stays inside the
\* system's update method: World.update returns normally, every other system
\* that is due is still called in that pass and in the later passes of the
\* frame, and the failing hook is called once per pass, not again.
C5_ErrorIsolation ==
  [][IsCall("update") =>
       LET n == (accumulator + lastOp'.dt) \div FixedTimeStep
           runnable == SelectSeq(systemOrder',
                         LAMBDA s : /\ sysActive'[s] /\ sysEnabled'[s]
                                    /\ sysEntities'[s] # {})
       IN /\ lastOp'.ret = "void"
          /\ lastOp'.passes = n
          /\ SelectSeq(calls', LAMBDA c : c.hook \in UpdateHooks)
               = ExpectedHooks(runnable, 0, n + 1, lastOp'.thrower, lastOp'.dt)]_vars

\* a hook has thrown and a system behind it in the same pass was still called
C5_Witness ==
  /\ lastOp.op = "update"
  /\ \E i, j \in 1..Len(calls) :
       /\ i < j
       /\ calls[i].threw
       /\ calls[j].hook = calls[i].hook
       /\ calls[j].arg = calls[i].arg
       /\ calls[j].sys # calls[i].sys

\* the component store and every membership set
StoreAndMembership == <<components, sysEntities>>

\* C6: addComponent on an unknown or inactive entity returns false,
\* removeComponent of a type the entity does not hold returns false, no error
\* is raised, and neither changes the component store or any membership.
C6_FailedAttachDetach ==
  [][\A e \in EntityIds :
       /\ (IsCall("addComponent") /\ lastOp'.id = e
             /\ (e \notin DOMAIN entities \/ ~entities[e].active))
            => (lastOp'.ret = "false" /\ StoreAndMembership' = StoreAndMembership)
       /\ (IsCall("removeComponent") /\ lastOp'.id = e
             /\ getComponent(e, lastOp'.typ) = 0)
            => (lastOp'.ret = "false" /\ StoreAndMembership' = StoreAndMembership)]_vars

\* addComponent was refused on a known entity that is inactive and holds a
\* component
C6_Witness ==
  /\ lastOp.op = "addComponent"
  /\ lastOp.ret = "false"
  /\ lastOp.id \in DOMAIN entities
  /\ ~entities[lastOp.id].active
  /\ ComponentTypesOf(lastOp.id) # {}

\* the component instances of type t stored under entity e
StoredOfType(comps, e, t) ==
  IF e \in DOMAIN comps
  THEN {c \in MapValues(comps[e]) : getComponentType(c) = t}
  ELSE {}

\* C7: an entity holds at most one component per type name, a successful
\* addComponent makes its argument the component getComponent returns for its
\* type, and the component returned for a type changes to another instance
\* only by a successful addComponent of that instance.
C7_OnePerTypeLatestWins ==
  [][\A e \in EntityIds :
       /\ \A t \in TypeNames : Cardinality(StoredOfType(components', e, t)) <= 1
       /\ (IsCall("addComponent") /\ lastOp'.id = e /\ lastOp'.ret = "true")
            => /\ Lookup(components', e, getComponentType(lastOp'.comp)) = lastOp'.comp
               /\ StoredOfType(components', e, getComponentType(lastOp'.comp))
                    = {lastOp'.comp}
       /\ \A t \in TypeNames :
            (getComponent(e, t)' # 0 /\ getComponent(e, t)' # getComponent(e, t))
              => /\ IsCall("addComponent") /\ lastOp'.id = e /\ lastOp'.ret = "true"
                 /\ lastOp'.comp = getComponent(e, t)'
                 /\ getComponentType(lastOp'.comp) = t]_vars

\* a component was attached over another instance of its type
C7_Witness ==
  /\ lastOp.op = "addComponent"
  /\ lastOp.ret = "true"
  /\ getComponent(lastOp.id, lastOp.typ) = lastOp.comp
  /\ \E c \in CompIds :
       /\ c # lastOp.comp
       /\ getComponentType(c) = lastOp.typ
       /\ compOwner[c] = lastOp.id

\* C8: no component instance is stored under two distinct entities.
C8_NoSharedComponent ==
  \A e1, e2 \in DOMAIN components :
    e1 # e2 => MapValues(components[e1]) \cap MapValues(components[e2]) = {}

\* C9 as stated: right after every addComponent or removeComponent on E that
\* returns true, every registered system has E as a member exactly when its
\* query matches the component types of E.
C9_ImmediateMembership ==
  (lastOp.op \in {"addComponent", "removeComponent"} /\ lastOp.ret = "true")
    => \A s \in RegisteredSystems : Consistent(lastOp.id, s)

\* C9 amended: the same for an entity E that is active; removeComponent on an
\* entity marked destroyed returns true and leaves the memberships as they are.
C9_ImmediateMembershipActive ==
  [][(/\ IsCall("addComponent") \/ IsCall("removeComponent")
      /\ lastOp'.ret = "true")
       => IF entities[lastOp'.id].active
          THEN \A s \in SeqElems(systems') :
                 ConsistentIn(components', sysEntities', lastOp'.id, s)
          ELSE sysEntities' = sysEntities]_vars

\* a removeComponent on an active entity took it out of a system at once
C9_Witness ==
  /\ lastOp.op = "removeComponent"
  /\ lastOp.ret = "true"
  /\ entities[lastOp.id].active
  /\ \E i \in 1..Len(calls) :
       calls[i].hook = "onEntityRemoved" /\ calls[i].arg = lastOp.id

\* the state of the World apart from the entity registry
AllButEntities ==
  <<components, compOwner, systems, systemOrder, sysEntities, sysActive, sysEnabled,
    pendingEntities, pendingRemovals, accumulator, nextId>>

\* what destroyEntity does on every call: false for an unknown id, and for a
\* known id true, the entity inactive but still in the registry with its
\* components
DestroyContract(e) ==
  IF e \notin DOMAIN entities
  THEN lastOp'.ret = "false" /\ entities' = entities /\ AllButEntities' = AllButEntities
  ELSE /\ lastOp'.ret = "true"
       /\ e \in DOMAIN entities'
       /\ ~entities'[e].active
       /\ components' = components

\* destroyEntity(e) has returned true and no update has come since
AwaitsRemoval(e) == e \in SeqElems(pendingRemovals)

\* C10 as stated: destroyEntity returns false for an unknown id; for a known
\* id it returns true, marks the entity inactive and keeps it and its
\* components until the next update; a repeated call before that update
\* returns true and leaves the state as it was after the first call.
C10_DestroyIdempotent ==
  [][\A e \in EntityIds :
       (IsCall("destroyEntity") /\ lastOp'.id = e) =>
         /\ DestroyContract(e)
         /\ (e \in DOMAIN entities /\ AwaitsRemoval(e))
              => /\ entities' = [entities EXCEPT ![e].active = FALSE]
                 /\ AllButEntities' = AllButEntities]_vars

\* C10 amended: a repeated call leaves the state as it was after the first
\* call except for the entity's lastModified timestamp, which is set to the
\* time of the repeated call.
C10_DestroyIdempotentButStamp ==
  [][\A e \in EntityIds :
       (IsCall("destroyEntity") /\ lastOp'.id = e) =>
         /\ DestroyContract(e)
         /\ (e \in DOMAIN entities /\ AwaitsRemoval(e))
              => /\ entities' = [entities EXCEPT ![e].active = FALSE,
                                                   ![e].lastModified = now']
                 /\ now' >= entities[e].lastModified
                 /\ AllButEntities' = AllButEntities]_vars

\* destroyEntity was called again on an entity already marked destroyed, at a
\* later clock reading than the entity's creation
C10_Witness ==
  /\ lastOp.op = "destroyEntity"
  /\ lastOp.ret = "true"
  /\ ~lastOp.wasActive
  /\ lastOp.wasPending
  /\ lastOp.id \in DOMAIN entities
  /\ entities[lastOp.id].lastModified > 0
  /\ ComponentTypesOf(lastOp.id) # {}

\* the hook calls of the last operation that hand entity e to a system
AddedCalls(log, e) == {i \in 1..Len(log) : log[i].hook = "onEntityAdded" /\ log[i].arg = e}

\* the entities created and destroyed since the last update
CreatedAndDestroyed(pendE, pendR) == SeqElems(pendE) \cap SeqElems(pendR)

\* C11: an entity created and destroyed before the next World.update is
\* purged by that update and is at no point a member of a system: no
\* addComponent in between and no step of the update hands it to a system
\* (addEntity / onEntityAdded).
C11_NeverReachesSystem ==
  [][\A e \in EntityIds :
       /\ e \in CreatedAndDestroyed(pendingEntities', pendingRemovals')
            => \A s \in SysIds : ~hasEntity(sysEntities', s, e)
       /\ (IsCall("update") /\ e \in CreatedAndDestroyed(pendingEntities, pendingRemovals))
            => (Gone(e)' /\ AddedCalls(calls', e) = {})]_vars

\* C12: at the end of every World.update, for every registered system S,
\* whether added before or after the entities were created, and every active
\* entity E, S.hasEntity(E) is true exactly when S.matchesQuery of the component
\* types of E is true.
C12_LateSystemsConsistent ==
  lastOp.op = "update" =>
    \A s \in RegisteredSystems :
      \A e \in {x \in DOMAIN entities : entities[x].active} :
        hasEntity(sysEntities, s, e) = matchesQuery(SystemQuery(s), ComponentTypesOf(e))

\* ------------------------------------------------------------------------
\* World.query on its own
\* ------------------------------------------------------------------------
\* World.query, the loop body: does the entity e of the registry go into results
Selected(ents, comps, e, q) ==
  IF ~ents[e].active THEN FALSE
  ELSE IF e \notin DOMAIN comps THEN FALSE
  ELSE World_matchesQuery(DOMAIN comps[e], q)

\* World.query, the loop over this._entities: ids are issued in increasing
\* order, so the Map iterates them in increasing order
RECURSIVE QueryLoop(_, _, _, _, _)
QueryLoop(ents, comps, e, q, results) ==
  IF e > MaxEntities THEN results
  ELSE QueryLoop(ents, comps, e + 1, q,
                 IF e \in DOMAIN ents /\ Selected(ents, comps, e, q)
                 THEN Append(results, e) ELSE results)

\* World.query(query)
query(ents, comps, q) == QueryLoop(ents, comps, 1, q, <<>>)

\* the queries World.query is called with
AskedQueries == ExampleQueries \cup SeqElems(SystemQueryTable)

\* the component maps an entity can hold: at most one pool instance per type
ComponentMaps ==
  {m \in UNION {[T -> CompIds] : T \in SUBSET TypeNames} :
     \A t \in DOMAIN m : getComponentType(m[t]) = t}

\* the ids of S in increasing order
Ordered(S) ==
  CHOOSE s \in [1..Cardinality(S) -> S] :
    \A i, j \in 1..Cardinality(S) : i < j => s[i] < s[j]

\* the registries and stores a World can be in between two updates: every
\* entity of the registry has a component map and is as created (active),
\* destroyed by destroyEntity (inactive and in _pendingRemovals), destroyed
\* and then activated again by Entity.activate() or the active setter (active
\* and in _pendingRemovals), or deactivated by Entity.deactivate() (inactive)
InitWorldQuery ==
  /\ \E ids \in SUBSET EntityIds :
       /\ entities \in [ids -> [active : BOOLEAN, lastModified : {0}]]
       /\ components \in [ids -> ComponentMaps]
       /\ \E destroyed \in SUBSET ids : pendingRemovals = Ordered(destroyed)
  /\ compOwner = [c \in CompIds |-> 0]
  /\ systems = <<>>
  /\ systemOrder = <<>>
  /\ sysEntities = [s \in SysIds |-> {}]
  /\ sysActive = [s \in SysIds |-> TRUE]
  /\ sysEnabled = [s \in SysIds |-> TRUE]
  /\ pendingEntities = <<>>
  /\ accumulator = 0
  /\ nextId = MaxEntities + 1
  /\ now = 0
  /\ addOrder = <<>>
  /\ lastOp = NoOp
  /\ calls = <<>>
  /\ ops = 0
  /\ probe \in [types : {{}}, query : AskedQueries, system : {FALSE}, world : {FALSE},
                found : {<<>>}, done : {FALSE}]
  /\ UnitsInit

\* one call of World.query(probe.query)
QueryCall ==
  /\ ~probe.done
  /\ probe' = [probe EXCEPT !.found = query(entities, components, probe.query),
                            !.done = TRUE]
  /\ UNCHANGED <<entities, components, compOwner, systems, systemOrder, sysEntities,
                 sysActive, sysEnabled, pendingEntities, pendingRemovals, accumulator,
                 nextId, now, addOrder, lastOp, calls, ops, unitVars>>

NextWorldQuery == QueryCall

SpecWorldQuery == InitWorldQuery /\ [][NextWorldQuery]_vars

\* C13: World.query(q) returns, each once, exactly the ids of the entities
\* that are in the registry, are active and whose current component types
\* match q; it reads the component store and not the systems' membership
\* sets (no system is registered here), and an entity that has been destroyed
\* and is not yet purged is not returned.
C13_QueryLiveActive ==
  probe.done =>
    /\ SeqElems(probe.found)
         = {e \in DOMAIN entities :
              entities[e].active /\ QueryHolds(probe.query, ComponentTypesOf(e))}
    /\ Len(probe.found) = Cardinality(SeqElems(probe.found))
    /\ \A e \in DOMAIN entities : AwaitsRemoval(e) => e \notin SeqElems(probe.found)

\* ------------------------------------------------------------------------
\* System on its own: direct calls on one instance
\* ------------------------------------------------------------------------
\* the instance under test
UnitSystem == 1

\* new System(name, priority, query): active, enabled, no members, no updates
InitSystem ==
  /\ entities = EmptyMap
  /\ components = EmptyMap
  /\ compOwner = [c \in CompIds |-> 0]
  /\ systems = <<>>
  /\ systemOrder = <<>>
  /\ sysEntities = [s \in SysIds |-> {}]
  /\ sysActive = [s \in SysIds |-> TRUE]
  /\ sysEnabled = [s \in SysIds |-> TRUE]
  /\ pendingEntities = <<>>
  /\ pendingRemovals = <<>>
  /\ accumulator = 0
  /\ nextId = 1
  /\ now = 0
  /\ addOrder = <<>>
  /\ lastOp = NoOp
  /\ calls = <<>>
  /\ ops = 0
  /\ probe = NoProbe
  /\ UnitsInit

\* what a direct call on a System leaves alone
WorldUnchanged ==
  UNCHANGED <<entities, components, compOwner, systems, systemOrder, pendingEntities,
              pendingRemovals, accumulator, nextId, now, addOrder, probe>>

\* system.addEntity(e) called directly
SysAddEntity(s, e) ==
  LET st == addEntity([members |-> sysEntities, calls |-> <<>>], s, e)
  IN /\ sysEntities' = st.members
     /\ calls' = st.calls
     /\ hookLog' = hookLog \o st.calls
     /\ lastOp' = [NoOp EXCEPT !.op = "System.addEntity", !.sys = s, !.id = e]
     /\ UNCHANGED <<sysActive, sysEnabled, updateCount, weapon, body, royale, ai, stepper, engine, game>>
     /\ WorldUnchanged

\* system.removeEntity(e) called directly
SysRemoveEntity(s, e) ==
  LET st == removeEntity([members |-> sysEntities, calls |-> <<>>], s, e)
  IN /\ sysEntities' = st.members
     /\ calls' = st.calls
     /\ hookLog' = hookLog \o st.calls
     /\ lastOp' = [NoOp EXCEPT !.op = "System.removeEntity", !.sys = s, !.id = e]
     /\ UNCHANGED <<sysActive, sysEnabled, updateCount, weapon, body, royale, ai, stepper, engine, game>>
     /\ WorldUnchanged

\* system.update(dt) / fixedUpdate(dt) / lateUpdate(dt) called directly; the
\* hook throws when thrower = s
SysUpdate(s, method, thrower) ==
  LET u == SystemUpdate(s, method, 0, thrower, sysEntities, sysActive, sysEnabled, 0)
  IN /\ calls' = u.calls
     /\ updateCount' = [updateCount EXCEPT ![s] = IF u.counted THEN @ + 1 ELSE @]
     /\ lastOp' = [NoOp EXCEPT !.op = "System." \o method, !.sys = s,
                               !.thrower = thrower,
                               !.ret = IF u.thrown THEN "throws" ELSE "void"]
     /\ UNCHANGED <<sysEntities, sysActive, sysEnabled, hookLog, weapon, body, royale, ai, stepper, engine, game>>
     /\ WorldUnchanged

\* system.clearEntities() called directly: the members go, no hook is fired
SysClearEntities(s) ==
  /\ sysEntities' = [sysEntities EXCEPT ![s] = {}]
  /\ calls' = <<>>
  /\ lastOp' = [NoOp EXCEPT !.op = "System.clearEntities", !.sys = s]
  /\ UNCHANGED <<sysActive, sysEnabled, updateCount, hookLog, weapon, body, royale, ai, stepper, engine, game>>
  /\ WorldUnchanged

\* system.resetMetrics() called directly
SysResetMetrics(s) ==
  /\ updateCount' = [updateCount EXCEPT ![s] = 0]
  /\ calls' = <<>>
  /\ lastOp' = [NoOp EXCEPT !.op = "System.resetMetrics", !.sys = s]
  /\ UNCHANGED <<sysEntities, sysActive, sysEnabled, hookLog, weapon, body, royale, ai, stepper, engine, game>>
  /\ WorldUnchanged

NextSystem ==
  \/ Called /\ \E e \in EntityIds : SysAddEntity(UnitSystem, e)
  \/ Called /\ \E e \in EntityIds : SysRemoveEntity(UnitSystem, e)
  \/ Called /\ SetActive(UnitSystem, ~sysActive[UnitSystem])
  \/ Called /\ SetEnabled(UnitSystem, ~sysEnabled[UnitSystem])
  \/ Called /\ \E m \in UpdateMethods, th \in {0, UnitSystem} : SysUpdate(UnitSystem, m, th)
  \/ Called /\ SysClearEntities(UnitSystem)
  \/ Called /\ SysResetMetrics(UnitSystem)

SpecSystem == InitSystem /\ [][NextSystem]_vars

\* the step just taken is a direct call of System.update, fixedUpdate or
\* lateUpdate
IsSystemUpdate(m) == ops' = ops + 1 /\ lastOp'.op = "System." \o m

\* the calls of log that are calls of the domain hook h
HookCalls(log, h) == {i \in 1..Len(log) : log[i].hook = h}

\* C14: System.update, fixedUpdate and lateUpdate do nothing when the system
\* is inactive, disabled or has no member entity: the domain hook is not invoked
\* and the update counter and every other field keep their values; otherwise
\* the domain hook of the method is invoked exactly once per call, whether it
\* throws or not.
C14_GuardedUpdate ==
  [][\A m \in UpdateMethods :
       IsSystemUpdate(m) =>
         LET s == lastOp'.sys
         IN IF ~sysActive[s] \/ ~sysEnabled[s] \/ sysEntities[s] = {}
            THEN /\ \A h \in UpdateHooks : HookCalls(calls', h) = {}
                 /\ updateCount' = updateCount
                 /\ <<sysEntities, sysActive, sysEnabled>>'
                      = <<sysEntities, sysActive, sysEnabled>>
            ELSE /\ Cardinality(HookCalls(calls', HookOf(m))) = 1
                 /\ \A h \in UpdateHooks \ {HookOf(m)} : HookCalls(calls', h) = {}
                 /\ lastOp'.ret = "void"]_vars

\* update was called on a system that has members but is disabled, after an
\* earlier update had run its hook
C14_Witness ==
  /\ lastOp.op = "System.update"
  /\ sysActive[lastOp.sys]
  /\ ~sysEnabled[lastOp.sys]
  /\ sysEntities[lastOp.sys] # {}
  /\ updateCount[lastOp.sys] = 1
  /\ HookCalls(calls, "onUpdate") = {}

\* the membership hooks fired so far for entity e on system s
HooksOf(log, s, e) == SelectSeq(log, LAMBDA c : c.sys = s /\ c.arg = e)

\* added, removed, added, ... starting with added
Alternates(log) ==
  \A i \in 1..Len(log) :
    log[i].hook = IF i % 2 = 1 THEN "onEntityAdded" ELSE "onEntityRemoved"

\* C15: addEntity(id) on a member and removeEntity(id) on a non-member change
\* nothing and fire no hook; a call that changes the membership fires its hook
\* once; so for every entity the onEntityAdded and onEntityRemoved calls
\* alternate strictly, starting with onEntityAdded.
C15_IdempotentMembership ==
  [][\A e \in EntityIds :
       LET s == lastOp'.sys
       IN /\ (ops' = ops + 1 /\ lastOp'.op = "System.addEntity" /\ lastOp'.id = e) =>
               /\ sysEntities' = [sysEntities EXCEPT ![s] = @ \cup {e}]
               /\ calls' = IF e \in sysEntities[s] THEN <<>>
                            ELSE <<Call(s, "onEntityAdded", e, FALSE)>>
               /\ updateCount' = updateCount
          /\ (ops' = ops + 1 /\ lastOp'.op = "System.removeEntity" /\ lastOp'.id = e) =>
               /\ sysEntities' = [sysEntities EXCEPT ![s] = @ \ {e}]
               /\ calls' = IF e \notin sysEntities[s] THEN <<>>
                            ELSE <<Call(s, "onEntityRemoved", e, FALSE)>>
               /\ updateCount' = updateCount
          /\ Alternates(HooksOf(hookLog', UnitSystem, e))]_vars

\* addEntity was called on an entity that is a member for the second time
\* (added, removed, added) and fired nothing
C15_Witness ==
  /\ lastOp.op = "System.addEntity"
  /\ calls = <<>>
  /\ lastOp.id \in sysEntities[lastOp.sys]
  /\ Len(HooksOf(hookLog, lastOp.sys, lastOp.id)) = 3

\* ------------------------------------------------------------------------
\* WeaponComponent
\* ------------------------------------------------------------------------
\* the time a weapon is exercised for, in fire intervals of the weapon
MaxIntervals == 22

WeaponTypes == {"pistol", "sniper"}

\* WeaponComponent.getWeaponStats(type): fireRate in rounds per second as
\* a fraction num/den, reloadTime in tenths of a second
getWeaponStats(type) ==
  CASE type = "pistol" -> [fireRateNum |-> 2, fireRateDen |-> 1, reloadTime10 |-> 15,
                           magazineSize |-> 12]
    [] type = "sniper" -> [fireRateNum |-> 1, fireRateDen |-> 2, reloadTime10 |-> 25,
                           magazineSize |-> 5]

\* new WeaponComponent(type)
NewWeapon(type) ==
  [type |-> type,
   stats |-> getWeaponStats(type),
   currentAmmo |-> getWeaponStats(type).magazineSize,
   totalAmmo |-> getWeaponStats(type).magazineSize * 3,
   lastFireTime |-> 0,
   isReloading |-> FALSE,
   reloadStartTime |-> 0]

\* currentTime - lastFireTime >= 1000 / fireRate, on the fraction
FireIntervalPassed(w, currentTime) ==
  (currentTime - w.lastFireTime) * w.stats.fireRateNum >= 1000 * w.stats.fireRateDen

\* faulty variant of canFire: the fire rate is not looked at
canFire_NoRateLimit(w, currentTime) == ~w.isReloading /\ w.currentAmmo > 0

\* WeaponComponent.canFire(currentTime)
canFire(w, currentTime) ==
  ~w.isReloading /\ w.currentAmmo > 0 /\ FireIntervalPassed(w, currentTime)

\* WeaponComponent.startReload(currentTime)
startReload(w, currentTime) ==
  IF w.isReloading \/ w.currentAmmo = w.stats.magazineSize THEN w
  ELSE [w EXCEPT !.isReloading = TRUE, !.reloadStartTime = currentTime]

\* faulty variant of updateReload: the magazine is filled whatever the
\* reserve holds
updateReload_Overdraw(w, currentTime) ==
  IF ~w.isReloading THEN w
  ELSE IF currentTime - w.reloadStartTime >= w.stats.reloadTime10 * 100
  THEN LET ammoNeeded == w.stats.magazineSize - w.currentAmmo
       IN [w EXCEPT !.currentAmmo = @ + ammoNeeded, !.totalAmmo = @ - ammoNeeded,
                    !.isReloading = FALSE]
  ELSE w

\* faulty variant of fire: a refused shot still stamps lastFireTime
fire_StampRefused(w, currentTime) ==
  IF ~canFire(w, currentTime) THEN [weapon |-> [w EXCEPT !.lastFireTime = currentTime],
                                    ret |-> FALSE]
  ELSE LET w1 == [w EXCEPT !.currentAmmo = @ - 1, !.lastFireTime = currentTime]
       IN [weapon |-> IF w1.currentAmmo = 0 THEN startReload(w1, currentTime) ELSE w1,
           ret |-> TRUE]

\* WeaponComponent.fire(currentTime): [weapon, ret]
fire(w, currentTime) ==
  IF ~canFire(w, currentTime) THEN [weapon |-> w, ret |-> FALSE]
  ELSE LET w1 == [w EXCEPT !.currentAmmo = @ - 1, !.lastFireTime = currentTime]
       IN [weapon |-> IF w1.currentAmmo = 0 THEN startReload(w1, currentTime) ELSE w1,
           ret |-> TRUE]

Min(a, b) == IF a < b THEN a ELSE b

\* faulty variant of updateReload: the reload completes at any time
updateReload_NoWait(w, currentTime) ==
  IF ~w.isReloading THEN w
  ELSE LET ammoToAdd == Min(w.stats.magazineSize - w.currentAmmo, w.totalAmmo)
       IN [w EXCEPT !.currentAmmo = @ + ammoToAdd, !.totalAmmo = @ - ammoToAdd,
                    !.isReloading = FALSE]

\* WeaponComponent.updateReload(currentTime)
updateReload(w, currentTime) ==
  IF ~w.isReloading THEN w
  ELSE IF currentTime - w.reloadStartTime >= w.stats.reloadTime10 * 100
  THEN LET ammoNeeded == w.stats.magazineSize - w.currentAmmo
           ammoToAdd == Min(ammoNeeded, w.totalAmmo)
       IN [w EXCEPT !.currentAmmo = @ + ammoToAdd, !.totalAmmo = @ - ammoToAdd,
                    !.isReloading = FALSE]
  ELSE w

\* a World and its systems, untouched by the calls on a component
FreshWorld ==
  /\ entities = EmptyMap
  /\ components = EmptyMap
  /\ compOwner = [c \in CompIds |-> 0]
  /\ systems = <<>>
  /\ systemOrder = <<>>
  /\ sysEntities = [s \in SysIds |-> {}]
  /\ sysActive = [s \in SysIds |-> TRUE]
  /\ sysEnabled = [s \in SysIds |-> TRUE]
  /\ pendingEntities = <<>>
  /\ pendingRemovals = <<>>
  /\ accumulator = 0
  /\ nextId = 1
  /\ addOrder = <<>>
  /\ calls = <<>>
  /\ ops = 0
  /\ probe = NoProbe
  /\ updateCount = [s \in SysIds |-> 0]
  /\ hookLog = <<>>

FreshWorldUnchanged ==
  UNCHANGED <<entities, components, compOwner, systems, systemOrder, sysEntities,
              sysActive, sysEnabled, pendingEntities, pendingRemovals, accumulator,
              nextId, addOrder, calls, ops, probe, updateCount, hookLog>>

InitWeapon ==
  /\ FreshWorld
  /\ now = 0
  /\ lastOp = NoOp
  /\ body = NoBody
  /\ royale = NoRoyale
  /\ ai = NoAI
  /\ stepper = NoStepper
  /\ engine = NoEngine
  /\ game = NoGame
  /\ \E type \in WeaponTypes : weapon = NewWeapon(type)

\* 1000 / fireRate, in ms
FireInterval(w) == (1000 * w.stats.fireRateDen) \div w.stats.fireRateNum

\* the time between two calls on the weapon: none (WeaponSystem makes its
\* calls of one frame with one reading), half the fire interval, the fire
\* interval, the reload time
Advances(w) == {0, FireInterval(w) \div 2, FireInterval(w), w.stats.reloadTime10 * 100}

Max(a, b) == IF a > b THEN a ELSE b

\* the reading after which the weapon has nothing left to wait for: both the
\* fire interval and the reload time have passed since the times it recorded
Settled(w) ==
  Max(w.lastFireTime, w.reloadStartTime) + Max(FireInterval(w), w.stats.reloadTime10 * 100)

\* the readings of performance.now() the next call may be made with: the
\* clock never runs back, and readings later than Settled give the same results
WeaponReadings ==
  {t \in {now + d : d \in Advances(weapon)} :
     t <= MaxIntervals * FireInterval(weapon) /\ t <= Settled(weapon)}

\* weapon.fire(t)
WeaponFire(t) ==
  LET r == fire(weapon, t)
  IN /\ weapon' = r.weapon
     /\ now' = t
     /\ lastOp' = [NoOp EXCEPT !.op = "fire", !.ret = IF r.ret THEN "true" ELSE "false"]
     /\ FreshWorldUnchanged
     /\ UNCHANGED <<body, royale, ai, stepper, engine, game>>

\* weapon.startReload(t)
WeaponStartReload(t) ==
  /\ weapon' = startReload(weapon, t)
  /\ now' = t
  /\ lastOp' = [NoOp EXCEPT !.op = "startReload"]
  /\ FreshWorldUnchanged
  /\ UNCHANGED <<body, royale, ai, stepper, engine, game>>

\* weapon.updateReload(t)
WeaponUpdateReload(t) ==
  /\ weapon' = updateReload(weapon, t)
  /\ now' = t
  /\ lastOp' = [NoOp EXCEPT !.op = "updateReload"]
  /\ FreshWorldUnchanged
  /\ UNCHANGED <<body, royale, ai, stepper, engine, game>>

NextWeapon ==
  \/ \E t \in WeaponReadings : WeaponFire(t)
  \/ \E t \in WeaponReadings : WeaponStartReload(t)
  \/ \E t \in WeaponReadings : WeaponUpdateReload(t)

SpecWeapon == InitWeapon /\ [][NextWeapon]_vars

\* C16: fire(t) succeeds only if t - lastFireTime >= 1000/fireRate; every
\* successful fire takes exactly one round from currentAmmo and sets
\* lastFireTime to t, a refused one changes nothing; with fireRate = 2 (the
\* pistol) a fire less than 500 ms after the last successful one returns false
\* and leaves the ammo as it is, and one 500 ms or more after it returns true
\* (the magazine of the two-call scenario is not empty: rounds are left and no
\* reload is running).
C16_FireRate ==
  [][lastOp'.op = "fire" =>
       LET t == now'
           since == t - weapon.lastFireTime
       IN /\ lastOp'.ret = "true" =>
               /\ since * weapon.stats.fireRateNum >= 1000 * weapon.stats.fireRateDen
               /\ weapon'.currentAmmo = weapon.currentAmmo - 1
               /\ weapon'.lastFireTime = t
               /\ weapon'.totalAmmo = weapon.totalAmmo
          /\ lastOp'.ret = "false" => weapon' = weapon
          /\ (weapon.type = "pistol" /\ weapon.lastFireTime > 0) =>
               /\ since < 500 => (lastOp'.ret = "false"
                                   /\ weapon'.currentAmmo = weapon.currentAmmo)
               /\ (since >= 500 /\ weapon.currentAmmo > 0 /\ ~weapon.isReloading)
                    => lastOp'.ret = "true"]_vars

\* a pistol refused the fire that came 250 ms after its last successful one,
\* with rounds left and no reload running
C16_Witness ==
  /\ weapon.type = "pistol"
  /\ lastOp.op = "fire"
  /\ lastOp.ret = "false"
  /\ weapon.lastFireTime > 0
  /\ now - weapon.lastFireTime = 250
  /\ weapon.currentAmmo = weapon.stats.magazineSize - 1
  /\ ~weapon.isReloading

\* C17: the fire that brings currentAmmo to 0 sets isReloading and
\* reloadStartTime to the fire time; while the weapon reloads with an empty
\* magazine, updateReload(t) with t - reloadStartTime >= reloadTime*1000 sets
\* currentAmmo to min(magazineSize, reserve), takes as many rounds from the
\* reserve and clears isReloading, and an updateReload before that time changes
\* nothing.
C17_Reload ==
  [][/\ (lastOp'.op = "fire" /\ lastOp'.ret = "true" /\ weapon'.currentAmmo = 0)
          => (weapon'.isReloading /\ weapon'.reloadStartTime = now')
     /\ (lastOp'.op = "updateReload" /\ weapon.isReloading /\ weapon.currentAmmo = 0)
          => IF now' - weapon.reloadStartTime >= weapon.stats.reloadTime10 * 100
             THEN LET n == Min(weapon.stats.magazineSize, weapon.totalAmmo)
                  IN weapon' = [weapon EXCEPT !.currentAmmo = n,
                                              !.totalAmmo = weapon.totalAmmo - n,
                                              !.isReloading = FALSE]
             ELSE weapon' = weapon]_vars

\* a reload that started on an empty magazine has just completed, exactly
\* reloadTime after it started, with a reserve smaller than the magazine
C17_Witness ==
  /\ lastOp.op = "updateReload"
  /\ weapon.type # "none"
  /\ ~weapon.isReloading
  /\ weapon.reloadStartTime > 0
  /\ weapon.lastFireTime = weapon.reloadStartTime
  /\ now - weapon.reloadStartTime = weapon.stats.reloadTime10 * 100
  /\ weapon.totalAmmo = 0
  /\ weapon.currentAmmo \in 1..(weapon.stats.magazineSize - 1)

\* ---------------------------------------------------------------------------
\* Binary floating point. A number is +/- mag * 2^exp with the whole number
\* mag held as its digits base 2^15, the lowest first and the highest not 0,
\* so that sums and products are exact whatever their size; a double is a
\* number whose mag has at most 53 bits, a Float32Array element one whose mag
\* has at most 24. Overflow and subnormal numbers do not occur for the values
\* met here.

\* the significand bits of a double
Precision == 53

\* the significand bits of a Float32Array element
SinglePrecision == 24

Base == 2^15

RECURSIVE BitLength(_)
BitLength(n) == IF n = 0 THEN 0 ELSE 1 + BitLength(n \div 2)

\* the digits of the whole number n
RECURSIVE Whole(_)
Whole(n) == IF n = 0 THEN <<>> ELSE <<n % Base>> \o Whole(n \div Base)

\* a without its high zeros
RECURSIVE Trim(_)
Trim(a) == IF a = <<>> \/ a[Len(a)] # 0 THEN a ELSE Trim(SubSeq(a, 1, Len(a) - 1))

\* a + b + carry
RECURSIVE Sum(_, _, _)
Sum(a, b, carry) ==
  IF a = <<>> /\ b = <<>> THEN Whole(carry)
  ELSE LET x == IF a = <<>> THEN 0 ELSE Head(a)
           y == IF b = <<>> THEN 0 ELSE Head(b)
       IN <<(x + y + carry) % Base>>
            \o Sum(IF a = <<>> THEN a ELSE Tail(a), IF b = <<>> THEN b ELSE Tail(b),
                   (x + y + carry) \div Base)

\* the digits of a - b - borrow for a >= b + borrow, high zeros included
RECURSIVE Difference(_, _, _)
Difference(a, b, borrow) ==
  IF a = <<>> THEN <<>>
  ELSE LET y == (IF b = <<>> THEN 0 ELSE Head(b)) + borrow
       IN <<(Head(a) + Base - y) % Base>>
            \o Difference(Tail(a), IF b = <<>> THEN b ELSE Tail(b),
                          IF Head(a) < y THEN 1 ELSE 0)

\* a < b
Less(a, b) ==
  \/ Len(a) < Len(b)
  \/ /\ Len(a) = Len(b)
     /\ \E i \in 1..Len(a) :
          a[i] < b[i] /\ \A j \in (i + 1)..Len(a) : a[j] = b[j]

\* a * m + carry for one digit m
RECURSIVE Scaled(_, _, _)
Scaled(a, m, carry) ==
  IF a = <<>> THEN Whole(carry)
  ELSE <<(Head(a) * m + carry) % Base>>
         \o Scaled(Tail(a), m, (Head(a) * m + carry) \div Base)

\* a * Base^n
Raised(a, n) == IF a = <<>> THEN a ELSE [i \in 1..n |-> 0] \o a

\* a * b
RECURSIVE Product(_, _)
Product(a, b) ==
  IF a = <<>> THEN <<>>
  ELSE Sum(Trim(Scaled(b, Head(a), 0)), Raised(Product(Tail(a), b), 1), 0)

\* a * 2^n
Doubled(a, n) == Raised(Trim(Scaled(a, 2^(n % 15), 0)), n \div 15)

\* the number of bits of a
Size(a) == IF a = <<>> THEN 0 ELSE 15 * (Len(a) - 1) + BitLength(a[Len(a)])

\* bit k of a, the lowest being bit 0
Bit(a, k) == (a[k \div 15 + 1] \div 2^(k % 15)) % 2

\* floor(a / 2^n)
Halved(a, n) ==
  LET high == SubSeq(a, n \div 15 + 1, Len(a))
      r == n % 15
  IN Trim([i \in 1..Len(high) |->
             high[i] \div 2^r
               + (IF i < Len(high) THEN (high[i + 1] % 2^r) * 2^(15 - r) ELSE 0)])

\* 0
Nought == [neg |-> FALSE, mag |-> <<>>, exp |-> 0]

\* the number of low zero bits of a # 0
LowZeros(a) ==
  CHOOSE k \in 0..(Size(a) - 1) : Bit(a, k) = 1 /\ \A j \in 0..(k - 1) : Bit(a, j) = 0

\* +/- mag * 2^exp, with the low zeros of mag moved into exp
Number(neg, mag, exp) ==
  IF mag = <<>> THEN Nought
  ELSE [neg |-> neg, mag |-> Halved(mag, LowZeros(mag)), exp |-> exp + LowZeros(mag)]

\* -x
Negated(x) == Number(~x.neg, x.mag, x.exp)

\* x < 0
Negative(x) == x.neg /\ x.mag # <<>>

\* x + y, exactly
Add(x, y) ==
  LET e == IF x.exp < y.exp THEN x.exp ELSE y.exp
      a == Doubled(x.mag, x.exp - e)
      b == Doubled(y.mag, y.exp - e)
  IN IF x.neg = y.neg THEN Number(x.neg, Sum(a, b, 0), e)
     ELSE IF Less(a, b) THEN Number(y.neg, Trim(Difference(b, a, 0)), e)
     ELSE Number(x.neg, Trim(Difference(a, b, 0)), e)

\* x * y, exactly
Times(x, y) == Number(x.neg # y.neg, Product(x.mag, y.mag), x.exp + y.exp)

\* x rounded to p significant bits, to the nearest and at a tie to the even one
Rounded(x, p) ==
  LET drop == Size(x.mag) - p
      kept == Halved(x.mag, drop)
      up == /\ Bit(x.mag, drop - 1) = 1
            /\ kept[1] % 2 = 1 \/ \E k \in 0..(drop - 2) : Bit(x.mag, k) = 1
  IN IF drop <= 0 THEN x
     ELSE Number(x.neg, IF up THEN Sum(kept, <<>>, 1) ELSE kept, x.exp + drop)

\* the double nearest to x: the result of an arithmetic operation
ToDouble(x) == Rounded(x, Precision)

\* the number a Float32Array element holds after x is stored into it
Stored(x) == Rounded(x, SinglePrecision)

\* k more digits of rem / d under the digits found, and what is left of the
\* division
RECURSIVE Digits(_, _, _, _)
Digits(rem, d, k, found) ==
  IF k = 0 THEN [digits |-> found, rem |-> rem]
  ELSE Digits((rem * Base) % d, d, k - 1, <<(rem * Base) \div d>> \o found)

\* the double n / d of two whole numbers, n >= 0 and 0 < d < 2^15: 90 bits
\* of the quotient and a last bit that tells whether more follow, rounded
Fraction(n, d) ==
  LET q == Digits(n % d, d, 6, Whole(n \div d))
  IN ToDouble(Number(FALSE, Trim(Scaled(q.digits, 2, IF q.rem > 0 THEN 1 ELSE 0)),
                     0 - 91))

\* ---------------------------------------------------------------------------
\* PhysicsSystem: gravity, integration and the ground clamp, on one entity.
\* position.y and velocity.y are elements of the Float32Array of a Vector3,
\* read as doubles and rounded when they are written; deltaTime, the sums and
\* the products are doubles. The x and z coordinates take no part in the y
\* integration and are left out.

\* the number of updates a run makes
MaxUpdates == 120

\* the longest deltaTime of one update, in sixtieths of a second
MaxSteps == 2

\* private gravity = -9.81
gravity == Negated(Fraction(981, 100))

\* the deltaTime of an update of k sixtieths of a second: k / 60
Sixtieths(k) == Fraction(k, 60)

\* 5 m
FiveMetres == Fraction(5, 1)

\* variant of SystemWorld: some code has assigned the property
SystemWorld_Assigned == "bound"

\* (this as any).world in a System: the class declares and assigns no such
\* property, and neither World.addSystem nor any other code sets it
SystemWorld == "undefined"

\* the property world of a system after a host's system.world = world
HostWorld == "bound"

\* physics.acceleration.y = this.gravity;
\* physics.velocity.y += physics.acceleration.y * deltaTime
IntegratedVelocity(b, deltaTime) ==
  Stored(ToDouble(Add(b.vy, ToDouble(Times(Stored(gravity), deltaTime)))))

\* const nextY = transform.position.y + physics.velocity.y * deltaTime
NextY(b, deltaTime) ==
  ToDouble(Add(b.y, ToDouble(Times(IntegratedVelocity(b, deltaTime), deltaTime))))

\* the body of the loop of PhysicsSystem.onUpdate(deltaTime) for the member
\* entity b: [body, threw]. With world undefined, world.getComponent throws a
\* TypeError before any field is read or written.
onUpdate(b, world, deltaTime) ==
  IF world = "undefined" THEN [body |-> b, threw |-> TRUE]
  ELSE IF b.isStatic THEN [body |-> b, threw |-> FALSE]
  ELSE [body |-> IF Negative(NextY(b, deltaTime))
                 THEN [b EXCEPT !.y = Nought, !.vy = Nought]
                 ELSE [b EXCEPT !.y = Stored(NextY(b, deltaTime)),
                                !.vy = IntegratedVelocity(b, deltaTime)],
        threw |-> FALSE]

\* System.update(deltaTime) of the PhysicsSystem: the guard, then onUpdate
\* inside try/catch
PhysicsSystemUpdate(b, dt) ==
  IF b.member THEN onUpdate(b, SystemWorld, Sixtieths(dt))
  ELSE [body |-> b, threw |-> FALSE]

\* the entities a run starts with: on the ground, 1 cm above it or at 5 m,
\* rising or falling at 0.5 m/s or at rest, static or not, member of the
\* system or not
StartHeights == {Nought, Stored(Fraction(1, 100)), FiveMetres}
StartSpeeds == {Negated(Stored(Fraction(1, 2))), Nought, Stored(Fraction(1, 2))}

InitPhysics ==
  /\ FreshWorld
  /\ now = 0
  /\ lastOp = NoOp
  /\ weapon = NoWeapon
  /\ royale = NoRoyale
  /\ ai = NoAI
  /\ stepper = NoStepper
  /\ engine = NoEngine
  /\ game = NoGame
  /\ \E y0 \in StartHeights, vy0 \in StartSpeeds, st \in BOOLEAN, m \in BOOLEAN :
        body = [member |-> m, isStatic |-> st, y |-> y0, vy |-> vy0,
                y0 |-> y0, vy0 |-> vy0, updates |-> 0, steady |-> TRUE]

\* physicsSystem.update(dt), called directly
PhysicsUpdate(dt) ==
  LET r == PhysicsSystemUpdate(body, dt)
  IN /\ body.updates < MaxUpdates
     /\ body' = [r.body EXCEPT !.updates = @ + 1, !.steady = FALSE]
     /\ lastOp' = [NoOp EXCEPT !.op = "PhysicsSystem.update", !.dt = dt,
                               !.thrower = IF r.threw THEN 1 ELSE 0]
     /\ FreshWorldUnchanged
     /\ UNCHANGED <<now, weapon, royale, ai, stepper, engine, game>>

\* world.update(dt) in a World whose one system is the PhysicsSystem, with
\* nothing pending: one system.update(dt); the fixed and late passes call
\* hooks that PhysicsSystem does not define
PhysicsWorldUpdate(dt) ==
  LET r == PhysicsSystemUpdate(body, dt)
  IN /\ body.updates < MaxUpdates
     /\ body' = [r.body EXCEPT !.updates = @ + 1, !.steady = @ /\ dt = 1]
     /\ lastOp' = [NoOp EXCEPT !.op = "update", !.dt = dt,
                               !.thrower = IF r.threw THEN 1 ELSE 0]
     /\ FreshWorldUnchanged
     /\ UNCHANGED <<now, weapon, royale, ai, stepper, engine, game>>

NextPhysics ==
  \/ \E dt \in 0..MaxSteps : PhysicsUpdate(dt)
  \/ \E dt \in 0..MaxSteps : PhysicsWorldUpdate(dt)

SpecPhysics == InitPhysics /\ [][NextPhysics]_vars

\* C18: a non-static entity of the PhysicsSystem whose position.y is >= 0
\* has position.y >= 0 after every update; whenever the integrated next y
\* would be below 0, the update sets position.y to 0 and velocity.y to 0.
C18_GroundClamp ==
  [][(lastOp'.op \in {"PhysicsSystem.update", "update"}
      /\ body.member /\ ~body.isStatic /\ ~Negative(body.y)) =>
       /\ ~Negative(body'.y)
       /\ Negative(NextY(body, Sixtieths(lastOp'.dt)))
            => (body'.y = Nought /\ body'.vy = Nought)]_vars

\* C19: under repeated World.update(1/60) a non-static entity that starts at
\* y = 5 with a vertical velocity that is not positive has reached
\* position.y = 0 and velocity.y = 0 by the 120th update.
C19_LandsWithin120 ==
  (/\ body.member
   /\ ~body.isStatic
   /\ body.steady
   /\ body.y0 = FiveMetres
   /\ body.vy0 \in {Nought} \cup {v \in StartSpeeds : Negative(v)}
   /\ body.updates >= 120) => (body.y = Nought /\ body.vy = Nought)

\* ---------------------------------------------------------------------------
\* BattleRoyaleSystem: the zone-damage tick. Every member entity has its own
\* BattleRoyaleComponent (with its own state object), a HealthComponent and a
\* TransformComponent; a player is the record of their fields. All zones are
\* centred on the origin, so a position enters only through its horizontal
\* distance from it and its height. The safe zone and the time alive take no part in the tick: the safe
\* zone is written only. The system reads its World from the property world,
\* which stays undefined unless a host assigns it.

\* the number of member entities
MaxPlayers == 2

\* the last clock reading of a run, in ms
MaxClock == 3000

\* BattleRoyaleSystem.phases (initializePhases): radius and damage
RoyalePhases ==
  << [radius |-> 800, damage |-> 1, duration |-> 180000, endTime |-> 0],
     [radius |-> 600, damage |-> 2, duration |-> 150000, endTime |-> 0],
     [radius |-> 400, damage |-> 3, duration |-> 120000, endTime |-> 0],
     [radius |-> 200, damage |-> 5, duration |-> 90000, endTime |-> 0],
     [radius |-> 100, damage |-> 10, duration |-> 60000, endTime |-> 0] >>

\* BattleRoyaleComponent.createInitialZone
InitialZone == [radius |-> 1000, damage |-> 0, duration |-> 300000, endTime |-> 0]

\* BattleRoyaleSystem.phaseUpdateInterval and zoneDamageInterval, in ms
PhaseUpdateInterval == 1000
ZoneDamageInterval == 1000

\* HealthComponent.invulnerabilityTime, in ms
InvulnerabilityTime == 500

\* this.emit in a System: the class has no such method
EmitDefined == FALSE

\* the y that dropPlayers gives a position: 100, // Drop height
DropHeight == 100

\* distanceToZone > br.state.zone.radius, where distanceToZone is
\* transform.position.distance(br.state.zone.center). Every zone centre is
\* (0, 0, 0); dist is the horizontal distance of the position from it and
\* height its y, so the distance is sqrt(dist^2 + height^2). Both sides are
\* compared as squares, which for whole numbers orders them as the doubles of
\* the code are ordered.
OutsideZone(p) == p.dist * p.dist + p.height * p.height > p.radius * p.radius

\* HealthComponent.takeDamage(damage) at clock reading currentTime: [player, died]
takeDamage(p, damage, currentTime) ==
  IF currentTime - p.lastDamageTime < InvulnerabilityTime
  THEN [player |-> p, died |-> FALSE]
  ELSE LET h == p.currentHealth - damage
       IN IF h <= 0
          THEN [player |-> [p EXCEPT !.currentHealth = 0, !.isDead = TRUE,
                                     !.lastDamageTime = currentTime],
                died |-> TRUE]
          ELSE [player |-> [p EXCEPT !.currentHealth = h, !.lastDamageTime = currentTime],
                died |-> FALSE]

\* BattleRoyaleSystem.findWinner: the first member that is not dead, 0 for null
RECURSIVE FindWinnerFrom(_, _)
FindWinnerFrom(ps, i) ==
  IF i > Len(ps) THEN 0
  ELSE IF ~ps[i].isDead THEN i
  ELSE FindWinnerFrom(ps, i + 1)

findWinner(ps) == FindWinnerFrom(ps, 1)

\* BattleRoyaleSystem.endGame on the component of player i: [players, threw]
endGame(ps, i, currentTime) ==
  LET winner == findWinner(ps)
      p == [ps[i] EXCEPT !.phase = "finished", !.endTime = currentTime,
                         !.winner = IF winner # 0 THEN winner ELSE @,
                         !.placement = IF winner # 0 THEN 1 ELSE @]
  IN [players |-> [ps EXCEPT ![i] = p], threw |-> ~EmitDefined]

\* BattleRoyaleSystem.handlePlayerElimination of player i: [players, threw]
handlePlayerElimination(ps, i, currentTime) ==
  LET p == [ps[i] EXCEPT !.placement = ps[i].playersAlive, !.playersAlive = @ - 1]
      ps1 == [ps EXCEPT ![i] = p]
      e == IF p.playersAlive <= 1 THEN endGame(ps1, i, currentTime)
           ELSE [players |-> ps1, threw |-> FALSE]
  IN IF e.threw THEN e ELSE [players |-> e.players, threw |-> ~EmitDefined]

\* the loop of BattleRoyaleSystem.applyZoneDamage from member i on: [players, threw].
\* With world undefined, world.getComponent throws a TypeError at the first member.
RECURSIVE ApplyZoneDamageFrom(_, _, _, _)
ApplyZoneDamageFrom(ps, i, world, currentTime) ==
  IF i > Len(ps) THEN [players |-> ps, threw |-> FALSE]
  ELSE IF world = "undefined" THEN [players |-> ps, threw |-> TRUE]
  ELSE IF ps[i].isDead \/ ~OutsideZone(ps[i])
       THEN ApplyZoneDamageFrom(ps, i + 1, world, currentTime)
  ELSE LET d == takeDamage(ps[i], ps[i].damage, currentTime)
           ps1 == [ps EXCEPT ![i] = d.player]
       IN IF ~d.died THEN ApplyZoneDamageFrom(ps1, i + 1, world, currentTime)
          ELSE LET h == handlePlayerElimination(ps1, i, currentTime)
               IN IF h.threw THEN h
                  ELSE ApplyZoneDamageFrom(h.players, i + 1, world, currentTime)

applyZoneDamage(ps, world, currentTime) == ApplyZoneDamageFrom(ps, 1, world, currentTime)

\* faulty variant of advancePhase: the table of phases is read from its end
advancePhase_Reversed(p, currentTime) ==
  LET n == p.currentPhase + 1
      newPhase == RoyalePhases[Len(RoyalePhases) - n + 1]
  IN [player |-> [p EXCEPT !.currentPhase = n, !.radius = newPhase.radius,
                           !.damage = newPhase.damage,
                           !.zoneDuration = newPhase.duration,
                           !.zoneStartTime = currentTime,
                           !.zoneEndTime = currentTime + newPhase.duration],
      threw |-> ~EmitDefined]

\* BattleRoyaleSystem.advancePhase: [player, threw]
advancePhase(p, currentTime) ==
  LET n == p.currentPhase + 1
      newPhase == RoyalePhases[n + 1]
  IN [player |-> [p EXCEPT !.currentPhase = n, !.radius = newPhase.radius,
                           !.damage = newPhase.damage,
                           !.zoneDuration = newPhase.duration,
                           !.zoneStartTime = currentTime,
                           !.zoneEndTime = currentTime + newPhase.duration],
      threw |-> ~EmitDefined]

\* the loop of BattleRoyaleSystem.updatePhases from member i on: [players, threw].
\* The endTime of every entry of phases is 0, so every reading is past it.
RECURSIVE UpdatePhasesFrom(_, _, _, _)
UpdatePhasesFrom(ps, i, world, currentTime) ==
  IF i > Len(ps) THEN [players |-> ps, threw |-> FALSE]
  ELSE IF world = "undefined" THEN [players |-> ps, threw |-> TRUE]
  ELSE IF /\ currentTime >= RoyalePhases[ps[i].currentPhase + 1].endTime
          /\ ps[i].currentPhase < Len(RoyalePhases) - 1
       THEN LET a == advancePhase(ps[i], currentTime)
                ps1 == [ps EXCEPT ![i] = a.player]
            IN IF a.threw THEN [players |-> ps1, threw |-> TRUE]
               ELSE UpdatePhasesFrom(ps1, i + 1, world, currentTime)
  ELSE UpdatePhasesFrom(ps, i + 1, world, currentTime)

updatePhases(ps, world, currentTime) == UpdatePhasesFrom(ps, 1, world, currentTime)

\* BattleRoyaleSystem.checkZonePosition
checkZonePosition(p, currentTime) ==
  IF OutsideZone(p) THEN [p EXCEPT !.mark = currentTime] ELSE p

\* the last loop of BattleRoyaleSystem.onUpdate: [players, threw]
ZonePositions(ps, world, currentTime) ==
  IF ps = <<>> THEN [players |-> ps, threw |-> FALSE]
  ELSE IF world = "undefined" THEN [players |-> ps, threw |-> TRUE]
  ELSE [players |-> [i \in 1..Len(ps) |-> checkZonePosition(ps[i], currentTime)],
        threw |-> FALSE]

\* BattleRoyaleSystem.onUpdate at the clock reading currentTime: the system
\* with its members after the call, and whether the call threw
BattleRoyaleOnUpdate(r, world, currentTime) ==
  LET r0 == [r EXCEPT !.currentTime = currentTime]
      phaseDue == currentTime - r.lastPhaseUpdate >= PhaseUpdateInterval
      u == IF phaseDue THEN updatePhases(r.players, world, currentTime)
           ELSE [players |-> r.players, threw |-> FALSE]
      r1 == [r0 EXCEPT !.players = u.players,
                       !.lastPhaseUpdate = IF phaseDue /\ ~u.threw THEN currentTime ELSE @]
      damageDue == currentTime - r.lastZoneDamage >= ZoneDamageInterval
      z == IF damageDue THEN applyZoneDamage(r1.players, world, currentTime)
           ELSE [players |-> r1.players, threw |-> FALSE]
      r2 == [r1 EXCEPT !.players = z.players,
                       !.lastZoneDamage = IF damageDue /\ ~z.threw THEN currentTime ELSE @]
      c == ZonePositions(r2.players, world, currentTime)
  IN IF u.threw THEN [royale |-> r1, threw |-> TRUE]
     ELSE IF z.threw THEN [royale |-> r2, threw |-> TRUE]
     ELSE [royale |-> [r2 EXCEPT !.players = c.players], threw |-> c.threw]

\* new BattleRoyaleComponent(totalPlayers), new HealthComponent(maxHealth) and
\* a TransformComponent on the ground (y = 0) at the distance dist from the
\* origin; zone is the component's zone: the initial one (phase 0) or the
\* last of phases (phase 4)
NewPlayer(totalPlayers, maxHealth, dist, currentPhase) ==
  LET zone == IF currentPhase = 0 THEN InitialZone ELSE RoyalePhases[currentPhase + 1]
  IN [dist |-> dist, height |-> 0, currentHealth |-> maxHealth, isDead |-> FALSE, lastDamageTime |-> 0,
      currentPhase |-> currentPhase, radius |-> zone.radius, damage |-> zone.damage,
      playersAlive |-> totalPlayers, phase |-> "waiting", winner |-> 0, placement |-> 0,
      endTime |-> 0, mark |-> 0, zoneDuration |-> zone.duration, zoneStartTime |-> 0,
      zoneEndTime |-> zone.endTime]

StartHealths == {5, 10, 100}
StartDistances == {0, 150, 1100}

\* BattleRoyaleSystem.startGame(): every member's component is set to
\* 'active' with its zone timed from the system's currentTime; the emit that
\* follows the loop throws: [players, threw]. With world undefined,
\* world.getComponent throws a TypeError at the first member.
startGame(r, world) ==
  IF r.players # <<>> /\ world = "undefined"
  THEN [players |-> r.players, threw |-> TRUE]
  ELSE [players |-> [i \in 1..Len(r.players) |->
                       [r.players[i] EXCEPT
                          !.phase = "active",
                          !.zoneStartTime = r.currentTime,
                          !.zoneEndTime = r.currentTime + r.players[i].zoneDuration]],
        threw |-> ~EmitDefined]

\* BattleRoyaleSystem.dropPlayers with the horizontal distances from the zone
\* centre that Math.random() gives the players; each position is set to
\* (center.x + cos(angle) * distance, 100, center.z + sin(angle) * distance):
\* [players, threw]
dropPlayers(r, world, dists) ==
  IF r.players # <<>> /\ world = "undefined"
  THEN [players |-> r.players, threw |-> TRUE]
  ELSE [players |-> [i \in 1..Len(r.players) |-> [r.players[i] EXCEPT !.dist = dists[i],
                                               !.height = DropHeight]],
        threw |-> ~EmitDefined]

\* Math.random() * br.state.zone.radius: a distance from 0 to below the
\* radius. At height 100 a player is outside a zone of radius r when the
\* distance is above sqrt(r^2 - 100^2), which is 0, 173.2, 387.3, 591.6, 793.7
\* and 994.9 for the radii 100, 200, 400, 600, 800 and 1000: one distance is
\* taken at 0 and one between each two of these marks and above the last, so
\* that for every zone radius a drop lands on either side of the zone's edge.
DropCandidates == {0, 50, 190, 390, 595, 795, 999}
DropDistances(p) == {d \in DropCandidates : d < p.radius}

\* a BattleRoyaleSystem with one to MaxPlayers member entities, its property
\* world being one of worlds, the players starting with one of healths at one
\* of distances
RoyaleStart(worlds, healths, distances) ==
  /\ FreshWorld
  /\ now = 0
  /\ lastOp = NoOp
  /\ weapon = NoWeapon
  /\ body = NoBody
  /\ ai = NoAI
  /\ stepper = NoStepper
  /\ engine = NoEngine
  /\ game = NoGame
  /\ \E world \in worlds, n \in 1..MaxPlayers, currentPhase \in {0, Len(RoyalePhases) - 1} :
       \E hs \in [1..n -> healths], ds \in [1..n -> distances] :
         royale = [players |-> [i \in 1..n |-> NewPlayer(n, hs[i], ds[i], currentPhase)],
                   currentTime |-> 0, lastPhaseUpdate |-> 0, lastZoneDamage |-> 0,
                   world |-> world]

\* the system as the repository builds it
InitRoyale == RoyaleStart({SystemWorld}, StartHealths, StartDistances)

\* the readings of performance.now() at the next update
RoyaleReadings == {t \in {now + 400, now + ZoneDamageInterval} : t <= MaxClock}

\* battleRoyaleSystem.update(dt) at the clock reading t: System.update's
\* guard (the system is active and has members), then onUpdate inside
\* try/catch
RoyaleUpdate(t) ==
  LET r == BattleRoyaleOnUpdate(royale, royale.world, t)
  IN /\ royale.players # <<>>
     /\ royale' = r.royale
     /\ now' = t
     /\ lastOp' = [NoOp EXCEPT !.op = "BattleRoyaleSystem.update",
                               !.thrower = IF r.threw THEN 1 ELSE 0]
     /\ FreshWorldUnchanged
     /\ UNCHANGED <<weapon, body, ai, stepper, engine, game>>

\* the damage of a hit that does not come from the zone
HitDamages == {5, 100}

\* health.takeDamage(damage) on player i at the clock reading t, called from
\* outside the BattleRoyaleSystem (as CollisionSystem.handleProjectileHit does)
RoyaleHit(i, damage, t) ==
  LET d == takeDamage(royale.players[i], damage, t)
  IN /\ royale' = [royale EXCEPT !.players[i] = d.player]
     /\ now' = t
     /\ lastOp' = [NoOp EXCEPT !.op = "takeDamage", !.id = i,
                               !.ret = IF d.died THEN "true" ELSE "false"]
     /\ FreshWorldUnchanged
     /\ UNCHANGED <<weapon, body, ai, stepper, engine, game>>

\* battleRoyaleSystem.startGame()
RoyaleStartGame ==
  LET g == startGame(royale, royale.world)
  IN /\ royale' = [royale EXCEPT !.players = g.players]
     /\ lastOp' = [NoOp EXCEPT !.op = "startGame",
                               !.ret = IF g.threw THEN "throws" ELSE "void"]
     /\ FreshWorldUnchanged
     /\ UNCHANGED <<now, weapon, body, ai, stepper, engine, game>>

\* battleRoyaleSystem.dropPlayers(), Math.random() giving player i the
\* distance dists[i]
RoyaleDropPlayers(dists) ==
  LET g == dropPlayers(royale, royale.world, dists)
  IN /\ \A i \in 1..Len(royale.players) : dists[i] \in DropDistances(royale.players[i])
     /\ royale' = [royale EXCEPT !.players = g.players]
     /\ lastOp' = [NoOp EXCEPT !.op = "dropPlayers",
                               !.ret = IF g.threw THEN "throws" ELSE "void"]
     /\ FreshWorldUnchanged
     /\ UNCHANGED <<now, weapon, body, ai, stepper, engine, game>>

NextRoyale ==
  \/ \E t \in RoyaleReadings : RoyaleUpdate(t)
  \/ \E i \in 1..Len(royale.players), damage \in HitDamages, t \in RoyaleReadings :
       RoyaleHit(i, damage, t)

SpecRoyale == InitRoyale /\ [][NextRoyale]_vars

\* the calls that run a match: updates, startGame and dropPlayers
NextRoyaleMatch ==
  \/ \E t \in RoyaleReadings : RoyaleUpdate(t)
  \/ RoyaleStartGame
  \/ \E dists \in [1..Len(royale.players) -> DropCandidates] : RoyaleDropPlayers(dists)

\* a match of the system as the repository builds it
SpecRoyaleBuilt == InitRoyale /\ [][NextRoyaleMatch]_vars

\* the system as built, and the system of a host that has assigned the
\* property world before the match
MatchHealths == {10, 100}
MatchDistances == {0, 1100}
InitRoyaleMatch == RoyaleStart({SystemWorld, HostWorld}, MatchHealths, MatchDistances)

SpecRoyaleMatch == InitRoyaleMatch /\ [][NextRoyaleMatch]_vars

\* C20: on each update of the BattleRoyaleSystem on which zone damage is due,
\* every living player farther from the zone centre than zone.radius takes
\* zone.damage; when that brings the player's health to 0, playersAlive is
\* decremented by one, and if playersAlive is then <= 1 the phase is
\* 'finished' and the winner is a player that is still alive.
C20_ZoneDamageTick ==
  [][(lastOp'.op = "BattleRoyaleSystem.update"
      /\ now' - royale.lastZoneDamage >= ZoneDamageInterval) =>
       \A i \in 1..Len(royale.players) :
         LET p == royale.players[i]
             q == royale'.players[i]
         IN (~p.isDead /\ OutsideZone(p)) =>
              /\ q.currentHealth = Max(0, p.currentHealth - p.damage)
              /\ q.currentHealth = 0 =>
                   /\ q.playersAlive = p.playersAlive - 1
                   /\ q.playersAlive <= 1 =>
                        /\ q.phase = "finished"
                        /\ q.winner # 0
                        /\ ~royale'.players[q.winner].isDead]_vars

\* the members whose health is not dead
Living(r) == {i \in 1..Len(r.players) : ~r.players[i].isDead}

\* C21: in a match of two or more players, once exactly one player is left
\* whose health is not dead, the match state (of at least one player's
\* component) is 'finished' with that player as the winner, and every dead
\* player has a recorded placement of 2 or more.
C21_LastPlayerWins ==
  (Len(royale.players) >= 2 /\ Cardinality(Living(royale)) = 1) =>
     /\ \E i \in 1..Len(royale.players) :
          /\ royale.players[i].phase = "finished"
          /\ royale.players[i].winner \in Living(royale)
     /\ \A i \in 1..Len(royale.players) :
          royale.players[i].isDead => royale.players[i].placement >= 2

C40_PhasesForwardZoneShrinks ==
  [][\A i \in 1..Len(royale.players) :
       /\ royale'.players[i].currentPhase >= royale.players[i].currentPhase
       /\ royale'.players[i].currentPhase <= Len(RoyalePhases) - 1
       /\ royale'.players[i].radius <= royale.players[i].radius]_vars

\* a component that started in phase 0 has been advanced three times: its
\* zone has shrunk from 1000 to 200
C40_Witness ==
  /\ lastOp.op = "BattleRoyaleSystem.update"
  /\ \E i \in 1..Len(royale.players) :
       /\ royale.players[i].currentPhase = 3
       /\ royale.players[i].radius = RoyalePhases[4].radius
       /\ royale.players[i].radius < InitialZone.radius

\* ---------------------------------------------------------------------------
\* AISystem: perception and the decision state machine, on one entity with
\* an AIComponent, a TransformComponent and an InputComponent. Times are in
\* ms, distances in whole units, aggression in tenths. executeBehavior writes
\* the flags of the InputComponent and currentPatrolIndex only, which the
\* perception and the decision never read; it is left out.

\* the number of calls made on one AIComponent
MaxAISteps == 6

\* nearestEnemyDistance when no enemy is perceived (nearestEnemy is null)
Infinity == 1000000

\* the detection range of AISystem.updatePerception
DetectionRange == 50

AIStates == {"patrol", "search", "combat", "retreat", "loot"}

\* the close-range branch of makeDecision without the look at the health
CloseRange_IgnoreHealth(a, currentTime) ==
  IF a.aggression > 5
  THEN [a EXCEPT !.state = "combat", !.combatTimeout = currentTime + 5000]
  ELSE [a EXCEPT !.state = "retreat"]

\* makeDecision, lines 220-227: an enemy nearer than 10
CloseRange(a, currentTime) ==
  IF a.health > 30 /\ a.aggression > 5
  THEN [a EXCEPT !.state = "combat", !.combatTimeout = currentTime + 5000]
  ELSE [a EXCEPT !.state = "retreat"]

\* AISystem.makeDecision(entityId, transform, ai, input, currentTime)
makeDecision(a, currentTime) ==
  LET enemy == a.dist # Infinity
      a1 == IF enemy /\ a.dist < 10 THEN CloseRange(a, currentTime)
            ELSE IF enemy /\ a.dist < 30
            THEN IF a.aggression > 7
                 THEN [a EXCEPT !.state = "combat", !.combatTimeout = currentTime + 3000]
                 ELSE [a EXCEPT !.state = "search", !.searchTimeout = currentTime + 10000]
            ELSE IF a.state = "search" /\ currentTime > a.searchTimeout
            THEN [a EXCEPT !.state = "patrol"]
            ELSE IF a.state = "combat" /\ currentTime > a.combatTimeout
            THEN [a EXCEPT !.state = "search", !.searchTimeout = currentTime + 8000]
            ELSE IF a.state = "retreat" /\ a.health > 50
            THEN [a EXCEPT !.state = "patrol"]
            ELSE IF a.state = "patrol" /\ a.loot
            THEN [a EXCEPT !.state = "loot"]
            ELSE a
  IN IF a1.state = "patrol" /\ ~a1.patrolPoints
     THEN [a1 EXCEPT !.patrolPoints = TRUE]
     ELSE a1

\* AISystem.updatePerception: the nearest other entity within the detection
\* range, where worldDist is the distance of the nearest other entity
updatePerception(a) ==
  [a EXCEPT !.dist = IF a.worldDist < DetectionRange THEN a.worldDist ELSE Infinity]

\* the body of the loop of AISystem.onUpdate for the member entity a, at the
\* clock reading currentTime: [ai, threw]. With world undefined,
\* world.getComponent throws a TypeError before anything is read or written.
AIOnUpdate(a, world, currentTime) ==
  IF world = "undefined" THEN [ai |-> a, threw |-> TRUE]
  ELSE LET a1 == updatePerception(a)
       IN [ai |-> IF currentTime - a1.lastDecisionTime >= a1.reactionTime
                  THEN [makeDecision(a1, currentTime) EXCEPT !.lastDecisionTime = currentTime]
                  ELSE a1,
           threw |-> FALSE]

\* the values an AIComponent and its surroundings start with
AIHealths == {20, 40, 100}
AIAggressions == {3, 6, 8}
AIDistances == {5, 20, 40, Infinity}

\* new AIComponent(), with the public fields given their values, and the
\* other entities at some distance
AIComponents ==
  [state : AIStates, health : AIHealths, aggression : AIAggressions,
   reactionTime : {200}, lastDecisionTime : {0}, searchTimeout : {0},
   combatTimeout : {0}, dist : AIDistances, loot : BOOLEAN,
   patrolPoints : {FALSE}, worldDist : {0}, steps : {0}]

InitAI ==
  /\ FreshWorld
  /\ now = 0
  /\ lastOp = NoOp
  /\ weapon = NoWeapon
  /\ body = NoBody
  /\ royale = NoRoyale
  /\ stepper = NoStepper
  /\ engine = NoEngine
  /\ game = NoGame
  /\ \E a \in AIComponents : ai = [a EXCEPT !.worldDist = a.dist]

\* the readings of performance.now() at the next call
AIReadings == {now + 100, now + 200, now + 5000}

\* makeDecision applied to the component at the clock reading t
AIMakeDecision(t) ==
  /\ ai.steps < MaxAISteps
  /\ ai' = [makeDecision(ai, t) EXCEPT !.steps = @ + 1]
  /\ now' = t
  /\ lastOp' = [NoOp EXCEPT !.op = "makeDecision"]
  /\ FreshWorldUnchanged
  /\ UNCHANGED <<weapon, body, royale, stepper, engine, game>>

NextAI == \E t \in AIReadings : AIMakeDecision(t)

SpecAI == InitAI /\ [][NextAI]_vars

\* C22: a decision made with an enemy perceived nearer than 10 leaves the
\* state 'combat' if perception.health > 30 and aggression > 0.5, and
\* 'retreat' otherwise, whatever the state was.
C22_CloseEnemyDecision ==
  [][(lastOp'.op = "makeDecision" /\ ai.dist < 10) =>
       ai'.state = IF ai.health > 30 /\ ai.aggression > 5 THEN "combat" ELSE "retreat"]_vars

\* a decision with an enemy at distance 5 has put a healthy, aggressive AI
\* with loot nearby into combat
C22_Witness ==
  /\ lastOp.op = "makeDecision"
  /\ ai.dist = 5
  /\ ai.health = 100
  /\ ai.aggression = 8
  /\ ai.state = "combat"
  /\ ai.combatTimeout = now + 5000
  /\ ai.loot

\* aiSystem.update(dt) at the clock reading t, the entity being a member:
\* System.update's guard, then onUpdate inside try/catch
AIUpdate(t) ==
  LET r == AIOnUpdate(ai, SystemWorld, t)
  IN /\ ai.steps < MaxAISteps
     /\ ai' = [r.ai EXCEPT !.steps = @ + 1]
     /\ now' = t
     /\ lastOp' = [NoOp EXCEPT !.op = "AISystem.update",
                               !.thrower = IF r.threw THEN 1 ELSE 0]
     /\ FreshWorldUnchanged
     /\ UNCHANGED <<weapon, body, royale, stepper, engine, game>>

\* the nearest other entity moves to the distance d (its transform.position
\* is written)
AIMoveEnemy(d) ==
  /\ ai.steps < MaxAISteps
  /\ d # ai.worldDist
  /\ ai' = [ai EXCEPT !.worldDist = d, !.steps = @ + 1]
  /\ lastOp' = [NoOp EXCEPT !.op = "moveEnemy"]
  /\ FreshWorldUnchanged
  /\ UNCHANGED <<now, weapon, body, royale, stepper, engine, game>>

AIUpdates == \E t \in AIReadings : AIUpdate(t)

NextAISystem ==
  \/ AIUpdates
  \/ \E d \in AIDistances : AIMoveEnemy(d)

\* the host keeps calling update for as long as the run lasts
SpecAISystem == InitAI /\ [][NextAISystem]_vars /\ WF_vars(AIUpdates)

\* A run of updates without end. performance.now() counts from an origin
\* that the program never looks at: the AISystem uses a reading only in
\* currentTime - lastDecisionTime >= reactionTime, in currentTime > timeout
\* and in timeout = currentTime + a constant, so two runs whose times differ
\* by a constant do the same. Such a run is followed with the times counted
\* from the latest reading, which is 0: after a reading dt later, every time
\* of the component is written dt earlier. A time that lies reactionTime or
\* more before the reading (for lastDecisionTime) or before the reading (for
\* a timeout) passes each of these tests at every later reading, and is held
\* at that mark.
SinceReading(a, dt) ==
  [a EXCEPT !.lastDecisionTime = Max(@ - dt, 0 - a.reactionTime),
            !.searchTimeout = Max(@ - dt, 0 - 1),
            !.combatTimeout = Max(@ - dt, 0 - 1)]

\* the time between two readings of performance.now()
AIDelays == {100, 200, 5000}

\* aiSystem.update(deltaTime) at the reading that comes dt after the last
\* one, the entity being a member
AIUpdateAfter(dt) ==
  LET r == AIOnUpdate(ai, SystemWorld, now + dt)
  IN /\ ai' = SinceReading(r.ai, dt)
     /\ lastOp' = [NoOp EXCEPT !.op = "AISystem.update", !.dt = dt,
                               !.thrower = IF r.threw THEN 1 ELSE 0]
     /\ FreshWorldUnchanged
     /\ UNCHANGED <<now, weapon, body, royale, stepper, engine, game>>

\* the nearest other entity moves to the distance d
AIEnemyMoves(d) ==
  /\ d # ai.worldDist
  /\ ai' = [ai EXCEPT !.worldDist = d]
  /\ lastOp' = [NoOp EXCEPT !.op = "moveEnemy"]
  /\ FreshWorldUnchanged
  /\ UNCHANGED <<now, weapon, body, royale, stepper, engine, game>>

AIUpdatesForever == \E dt \in AIDelays : AIUpdateAfter(dt)

NextAIForever ==
  \/ AIUpdatesForever
  \/ \E d \in AIDistances : AIEnemyMoves(d)

\* the host calls update again and again, without end
SpecAIForever == InitAI /\ [][NextAIForever]_vars /\ WF_vars(AIUpdatesForever)

\* C23: if no enemy is within range (the nearest is at 30 or more, or there
\* is none) and the AISystem keeps being updated, the AI is eventually in
\* state 'patrol'.
C23_ReturnsToPatrol ==
  [](ai.worldDist >= 30) => <>(ai.state = "patrol")

\* C30: an update of the AISystem changes the AI state only when at least
\* reactionTime ms have passed since the previous decision, and every update
\* refreshes the perception: nearestEnemyDistance is the distance of the
\* nearest other entity if that is within the detection range.
C30_ReactionLatency ==
  [][lastOp'.op = "AISystem.update" =>
       /\ ai'.state # ai.state => now' - ai.lastDecisionTime >= ai.reactionTime
       /\ ai'.dist = IF ai.worldDist < DetectionRange THEN ai.worldDist ELSE Infinity]_vars

\* the step of World.update a call belongs to: 0 resolving the pending
\* changes, 1 the update pass, 2 the fixed timestep passes, 3 the late pass
StepOf(c) ==
  CASE c.hook \in {"update", "onUpdate"} -> 1
    [] c.hook \in {"fixedUpdate", "onFixedUpdate"} -> 2
    [] c.hook \in {"lateUpdate", "onLateUpdate"} -> 3
    [] OTHER -> 0

\* the number of calls of method on system s in log
TimesCalled(log, s, method) ==
  Cardinality({i \in 1..Len(log) : log[i].sys = s /\ log[i].hook = method})

\* C25: within one World.update the pending additions and removals are
\* resolved first (their membership hooks come before every update, the
\* pending sets end empty and the removed entities are gone from the registry
\* and from every registered system), then update runs once on every active
\* system, on the memberships so resolved, then fixedUpdate once per pass,
\* then lateUpdate once: no call of a later step comes before a call of an
\* earlier one.
C25_UpdateOrder ==
  [][IsCall("update") =>
       /\ \A i, j \in 1..Len(calls') : i < j => StepOf(calls'[i]) <= StepOf(calls'[j])
       /\ pendingEntities' = <<>> /\ pendingRemovals' = <<>>
       /\ \A e \in SeqElems(pendingRemovals) :
            /\ e \notin DOMAIN entities'
            /\ \A s \in SeqElems(systems) : e \notin sysEntities'[s]
       /\ \A s \in SeqElems(systemOrder) :
            LET n == IF isActive(sysActive, sysEnabled, s) THEN 1 ELSE 0
            IN /\ TimesCalled(calls', s, "update") = n
               /\ TimesCalled(calls', s, "fixedUpdate") = n * lastOp'.passes
               /\ TimesCalled(calls', s, "lateUpdate") = n
               /\ TimesCalled(calls', s, "onUpdate")
                    = IF sysEntities'[s] # {} THEN n ELSE 0]_vars

\* an update that resolved a pending change, then ran the update pass, a
\* fixed pass and the late pass with their hooks
C25_Witness ==
  /\ lastOp.op = "update"
  /\ \E i, j, k, l \in 1..Len(calls) :
       /\ i < j /\ j < k /\ k < l
       /\ StepOf(calls[i]) = 0
       /\ calls[j].hook = "onUpdate"
       /\ calls[k].hook = "onFixedUpdate"
       /\ calls[l].hook = "onLateUpdate"

\* C26: removeSystem(name) returns false and changes nothing when no system
\* is registered under name; otherwise it calls onShutdown of that system
\* once and returns true, the system is out of the registry, the systems that
\* remain are in the order they had, which is by priority, and every update
\* calls update / fixedUpdate / lateUpdate on registered systems only, so
\* never on the removed one.
C26_RemoveSystem ==
  [][/\ IsCall("removeSystem") =>
          LET k == KeyIndex(systems, lastOp'.name)
          IN IF k = 0
             THEN /\ lastOp'.ret = "false"
                  /\ calls' = <<>>
                  /\ UNCHANGED <<entities, components, compOwner, systems, systemOrder,
                                 sysEntities, sysActive, sysEnabled, pendingEntities,
                                 pendingRemovals, accumulator, nextId>>
             ELSE /\ lastOp'.ret = "true"
                  /\ calls' = <<Call(systems[k], "onShutdown", 0, FALSE)>>
                  /\ KeyIndex(systems', lastOp'.name) = 0
                  /\ systems' = SelectSeq(systems, LAMBDA x : x # systems[k])
                  /\ systemOrder' = SelectSeq(systemOrder, LAMBDA x : x # systems[k])
                  /\ \A i, j \in 1..Len(systemOrder') :
                       i < j => Compare(systemOrder'[i], systemOrder'[j]) <= 0
     /\ IsCall("update") =>
          \A i \in 1..Len(calls') :
            StepOf(calls'[i]) > 0 => calls'[i].sys \in SeqElems(systems)]_vars

\* a system was removed from among three; the two that remain have different
\* priorities
C26_Witness ==
  /\ lastOp.op = "removeSystem"
  /\ lastOp.ret = "true"
  /\ calls = <<Call(lastOp.sys, "onShutdown", 0, FALSE)>>
  /\ Len(systemOrder) = 2
  /\ Compare(systemOrder[1], systemOrder[2]) < 0

(***************************************************************************)
(* World.update in the arithmetic of the program. _accumulator, deltaTime  *)
(* and _fixedTimeStep are IEEE 754 doubles: a sum or a difference that     *)
(* does not fit the 53 bits of a significand is rounded to the nearest     *)
(* double, ties to the even one. The doubles met here are whole multiples  *)
(* of 2^-55 below 32; one is held as its count of such quanta in two       *)
(* limbs, hi * 2^30 + lo, so that no integer of the model leaves 32 bits.  *)
(***************************************************************************)

\* the number of World.update calls followed
MaxWorldUpdates == 4

Limb == 2^30

Quanta(hi, lo) == [hi |-> hi, lo |-> lo]

Zero == Quanta(0, 0)

\* 1.0
One == Quanta(2^25, 0)

\* a + b of two counts of quanta, exactly
Plus(a, b) == Quanta(a.hi + b.hi + (a.lo + b.lo) \div Limb, (a.lo + b.lo) % Limb)

\* a - b for a >= b, exactly
Minus(a, b) ==
  IF a.lo >= b.lo THEN Quanta(a.hi - b.hi, a.lo - b.lo)
  ELSE Quanta(a.hi - b.hi - 1, a.lo + Limb - b.lo)

\* a >= b
AtLeast(a, b) == a.hi > b.hi \/ (a.hi = b.hi /\ a.lo >= b.lo)

\* the double nearest to the exact value x, ties to even: of the bits of x
\* the leading 53 are kept (the rest, at most 7 here, are bits of the low limb)
RoundToDouble(x) ==
  LET drop == BitLength(x.hi) + 30 - Precision
      unit == 2^drop
      rest == x.lo % unit
      kept == x.lo - rest
      up == \/ 2 * rest > unit
            \/ 2 * rest = unit /\ (x.lo \div unit) % 2 = 1
  IN IF drop <= 0 \/ rest = 0 THEN x
     ELSE IF up THEN Plus(Quanta(x.hi, kept), Quanta(0, unit))
     ELSE Quanta(x.hi, kept)

\* faulty variant of FixedSteps: an accumulator of exactly one step is kept
\* for the next frame
RECURSIVE FixedSteps_Strict(_, _, _)
FixedSteps_Strict(acc, fixedTimeStep, passes) ==
  IF AtLeast(acc, fixedTimeStep) /\ acc # fixedTimeStep
  THEN FixedSteps_Strict(RoundToDouble(Minus(acc, fixedTimeStep)), fixedTimeStep,
                         passes + 1)
  ELSE [accumulator |-> acc, passes |-> passes]

\* while (this._accumulator >= this._fixedTimeStep) { fixedUpdate passes;
\* this._accumulator -= this._fixedTimeStep }: [accumulator, passes]
RECURSIVE FixedSteps(_, _, _)
FixedSteps(acc, fixedTimeStep, passes) ==
  IF AtLeast(acc, fixedTimeStep)
  THEN FixedSteps(RoundToDouble(Minus(acc, fixedTimeStep)), fixedTimeStep, passes + 1)
  ELSE [accumulator |-> acc, passes |-> passes]

\* this._accumulator += deltaTime, then the fixed timestep loop
Accumulate(acc, deltaTime, fixedTimeStep) ==
  FixedSteps(RoundToDouble(Plus(acc, deltaTime)), fixedTimeStep, 0)

\* the fixedTimeStep a World is constructed with: 0.5, 1.0
FixedTimeSteps == {Quanta(2^24, 0), One}

\* the deltaTime of an update: 0, 3 * 2^-55, 0.5, 1 - 2^-53, 1.0, 2.5
DeltaTimes ==
  {Zero, Quanta(0, 3), Quanta(2^24, 0), Quanta(2^25 - 1, Limb - 4), One,
   Quanta(5 * 2^24, 0)}

\* new World(fixedTimeStep); supplied and simulated are the exact sums of the
\* deltaTime given to update and of the time steps given to fixedUpdate
NewStepper(fixedTimeStep) ==
  [fixedTimeStep |-> fixedTimeStep, accumulator |-> Zero, calls |-> 0,
   deltaTime |-> Zero, passes |-> 0, args |-> {}, rounded |-> FALSE,
   supplied |-> Zero, simulated |-> Zero]

InitStepper ==
  /\ FreshWorld
  /\ now = 0
  /\ lastOp = NoOp
  /\ weapon = NoWeapon
  /\ body = NoBody
  /\ royale = NoRoyale
  /\ ai = NoAI
  /\ engine = NoEngine
  /\ game = NoGame
  /\ \E f \in FixedTimeSteps : stepper = NewStepper(f)

\* n * x, exactly
RECURSIVE Multiple(_, _)
Multiple(n, x) == IF n = 0 THEN Zero ELSE Plus(x, Multiple(n - 1, x))

\* floor(x / y) for y > 0, exactly
RECURSIVE Quotient(_, _)
Quotient(x, y) == IF AtLeast(x, y) THEN 1 + Quotient(Minus(x, y), y) ELSE 0

\* world.update(deltaTime) of a World whose systems all run their passes
StepperUpdate(deltaTime) ==
  LET r == Accumulate(stepper.accumulator, deltaTime, stepper.fixedTimeStep)
      sum == Plus(stepper.accumulator, deltaTime)
  IN /\ stepper.calls < MaxWorldUpdates
     /\ stepper' = [stepper EXCEPT
                      !.accumulator = r.accumulator,
                      !.calls = @ + 1,
                      !.deltaTime = deltaTime,
                      !.passes = r.passes,
                      !.args = IF r.passes > 0 THEN {stepper.fixedTimeStep} ELSE {},
                      !.rounded = @ \/ RoundToDouble(sum) # sum,
                      !.supplied = Plus(@, deltaTime),
                      !.simulated = Plus(@, Multiple(r.passes, stepper.fixedTimeStep))]
     /\ lastOp' = [NoOp EXCEPT !.op = "World.update", !.passes = r.passes]
     /\ FreshWorldUnchanged
     /\ UNCHANGED <<now, weapon, body, royale, ai, engine, game>>

NextStepper == \E deltaTime \in DeltaTimes : StepperUpdate(deltaTime)

SpecStepper == InitStepper /\ [][NextStepper]_vars

\* every number the World is given or keeps is a double
StepperTypeOK ==
  /\ \A x \in DeltaTimes \cup FixedTimeSteps : RoundToDouble(x) = x
  /\ stepper.calls > 0 => RoundToDouble(stepper.accumulator) = stepper.accumulator

\* C24 as stated: in every World.update(dt) every fixed pass is given
\* fixedTimeStep, the number of fixed passes is
\* floor((accumulator before + dt) / fixedTimeStep), afterwards
\* 0 <= accumulator < fixedTimeStep, and the total time given to the fixed
\* passes never exceeds the total dt supplied and lags it by less than one
\* step.
C24_FixedStepAccounting ==
  [][lastOp'.op = "World.update" /\ stepper'.calls = stepper.calls + 1 =>
       LET fts == stepper.fixedTimeStep
       IN /\ stepper'.args \subseteq {fts}
          /\ stepper'.passes = Quotient(Plus(stepper.accumulator, stepper'.deltaTime), fts)
          /\ AtLeast(stepper'.accumulator, Zero)
          /\ ~AtLeast(stepper'.accumulator, fts)
          /\ AtLeast(stepper'.supplied, stepper'.simulated)
          /\ ~AtLeast(Minus(stepper'.supplied, stepper'.simulated), fts)]_vars

\* C24, amended: in every World.update(dt) every fixed pass is given
\* fixedTimeStep, the number of fixed passes is
\* floor(s / fixedTimeStep) for the double s nearest to accumulator before + dt,
\* the accumulator afterwards is what that many steps leave of s, with
\* 0 <= accumulator < fixedTimeStep; and as long as no sum of the run was
\* rounded, the total time given to the fixed passes never exceeds the total
\* dt supplied and lags it by the accumulator, less than one step.
C24_RoundedStepAccounting ==
  [][lastOp'.op = "World.update" /\ stepper'.calls = stepper.calls + 1 =>
       LET fts == stepper.fixedTimeStep
           s == RoundToDouble(Plus(stepper.accumulator, stepper'.deltaTime))
           n == Quotient(s, fts)
       IN /\ stepper'.args \subseteq {fts}
          /\ stepper'.passes = n
          /\ Plus(stepper'.accumulator, Multiple(n, fts)) = s
          /\ AtLeast(stepper'.accumulator, Zero)
          /\ ~AtLeast(stepper'.accumulator, fts)
          /\ ~stepper'.rounded =>
               /\ AtLeast(stepper'.supplied, stepper'.simulated)
               /\ Minus(stepper'.supplied, stepper'.simulated) = stepper'.accumulator]_vars

\* an update whose sum was rounded up to a whole step ran a fixed pass that
\* exact arithmetic would not have run
C24_Witness ==
  /\ lastOp.op = "World.update"
  /\ stepper.calls > 0
  /\ stepper.rounded
  /\ stepper.passes = 1
  /\ stepper.args = {stepper.fixedTimeStep}
  /\ stepper.accumulator = Zero
  /\ ~AtLeast(stepper.supplied, stepper.simulated)

(***************************************************************************)
(* Engine: start / stop / pause / resume and the frame loop. The clock     *)
(* (performance.now()) is read in whole milliseconds. deltaTime, the       *)
(* accumulators and the fixed time step are doubles as above, here whole   *)
(* multiples of 2^-62 below 1/4, held as counts of that quantum in two     *)
(* limbs. A frame callback that requestAnimationFrame or setTimeout holds  *)
(* is counted in scheduled.                                                *)
(***************************************************************************)

\* the last clock reading followed, in ms
MaxEngineClock == 44

\* the frame chains followed at once: a resume that comes before the pending
\* callback of the paused chain has fired starts a second chain
MaxChains == 2

\* the digits base 2^15 of the fraction rem / d after the digits found, and
\* what is left of the division
RECURSIVE LongDivision(_, _, _, _)
LongDivision(rem, d, k, digits) ==
  IF k = 0 THEN [digits |-> digits, rem |-> rem]
  ELSE LongDivision((rem * 2^15) % d, d, k - 1, Append(digits, (rem * 2^15) \div d))

\* n / d of two whole numbers 0 <= n < d / 4: the double nearest to the
\* quotient, ties to even, as its count of quanta of 2^-62
Divide(n, d) ==
  LET q == LongDivision((4 * n) % d, d, 4, <<>>)
      hi == q.digits[1] * 2^15 + q.digits[2]
      lo == q.digits[3] * 2^15 + q.digits[4]
      drop == BitLength(hi) + 30 - Precision
      unit == 2^drop
      rest == lo % unit
      kept == lo - rest
      up == IF drop = 0
            THEN 2 * q.rem > d \/ (2 * q.rem = d /\ lo % 2 = 1)
            ELSE \/ 2 * rest > unit
                 \/ 2 * rest = unit /\ (q.rem > 0 \/ (lo \div unit) % 2 = 1)
  IN IF n = 0 THEN Zero
     ELSE IF up THEN Plus(Quanta(hi, kept), Quanta(0, unit))
     ELSE Quanta(hi, kept)

\* config.fixedTimeStep ?? 1 / 60
FixedDeltaTime == Divide(1, 60)

\* const maxDeltaTime = 1 / 30
MaxDeltaTime == Divide(1, 30)

\* faulty variant of ClampedDelta: the elapsed time is passed on as it is
ClampedDelta_NoClamp(currentTime, lastFrameTime) ==
  Divide(currentTime - lastFrameTime, 1000)

\* Math.min((currentTime - this._lastFrameTime) / 1000, maxDeltaTime)
ClampedDelta(currentTime, lastFrameTime) ==
  LET deltaTime == Divide(currentTime - lastFrameTime, 1000)
  IN IF AtLeast(deltaTime, MaxDeltaTime) THEN MaxDeltaTime ELSE deltaTime

\* new Engine(config) with config.fixedTimeStep left to its default; measured
\* is the sum of the clock differences the frames have taken their deltaTime
\* from, ranFor the time the clock has advanced while the engine was running,
\* both in ms
NewEngine ==
  [isRunning |-> FALSE, lastFrameTime |-> 0, deltaTime |-> Zero, accumulator |-> Zero,
   scheduled |-> 0, resumedAt |-> 0, measured |-> 0, ranFor |-> 0]

\* new World(this._fixedDeltaTime) of the Engine: no entities, no systems,
\* _accumulator 0
InitEngine ==
  /\ entities = EmptyMap
  /\ components = EmptyMap
  /\ compOwner = [c \in CompIds |-> 0]
  /\ systems = <<>>
  /\ systemOrder = <<>>
  /\ sysEntities = [s \in SysIds |-> {}]
  /\ sysActive = [s \in SysIds |-> TRUE]
  /\ sysEnabled = [s \in SysIds |-> TRUE]
  /\ pendingEntities = <<>>
  /\ pendingRemovals = <<>>
  /\ accumulator = Zero
  /\ nextId = 1
  /\ addOrder = <<>>
  /\ calls = <<>>
  /\ ops = 0
  /\ probe = NoProbe
  /\ updateCount = [s \in SysIds |-> 0]
  /\ hookLog = <<>>
  /\ now = 0
  /\ lastOp = [NoOp EXCEPT !.dt = Zero]
  /\ weapon = NoWeapon
  /\ body = NoBody
  /\ royale = NoRoyale
  /\ ai = NoAI
  /\ stepper = NoStepper
  /\ engine = NewEngine
  /\ game = NoGame

\* the fields of the World that no operation of the Engine writes here: all
\* but its accumulator
EngineWorldUnchanged ==
  UNCHANGED <<entities, components, compOwner, systems, systemOrder, sysEntities,
              sysActive, sysEnabled, pendingEntities, pendingRemovals, nextId,
              addOrder, calls, ops, probe, updateCount, hookLog>>

\* Engine._gameLoop() at clock reading currentTime, with the accumulator acc
\* of its World, which has no systems: [engine, accumulator, ran, dt, passes].
\* this._world.update(this._deltaTime) adds to the World's accumulator and
\* takes the fixed steps out of it; the Engine does the same on its own
\* _accumulator
gameLoop(e, acc, currentTime) ==
  IF ~e.isRunning
  THEN [engine |-> e, accumulator |-> acc, ran |-> FALSE, dt |-> Zero, passes |-> 0]
  ELSE LET dt == ClampedDelta(currentTime, e.lastFrameTime)
           w == Accumulate(acc, dt, FixedDeltaTime)
       IN [engine |-> [e EXCEPT !.lastFrameTime = currentTime,
                                !.deltaTime = dt,
                                !.accumulator =
                                   Accumulate(@, dt, FixedDeltaTime).accumulator,
                                !.scheduled = @ + 1,
                                !.measured = @ + (currentTime - e.lastFrameTime)],
           accumulator |-> w.accumulator, ran |-> TRUE, dt |-> dt, passes |-> w.passes]

\* faulty variant of resume: _lastFrameTime is left at the last frame before
\* the pause
resume_KeepLastFrame(e, t) == [e EXCEPT !.isRunning = TRUE, !.resumedAt = t]

\* Engine.resume() and Engine.start() before their call of _gameLoop:
\* this._isRunning = true; this._lastFrameTime = performance.now()
resume(e, t) == [e EXCEPT !.isRunning = TRUE, !.lastFrameTime = t, !.resumedAt = t]

\* what a call of the Engine leaves behind: the engine, the accumulator of its
\* World and the record of the call
EngineStep(op, r, t) ==
  /\ engine' = r.engine
  /\ accumulator' = r.accumulator
  /\ now' = t
  /\ lastOp' = [NoOp EXCEPT !.op = op, !.dt = r.dt, !.passes = r.passes,
                            !.ret = IF r.ran THEN "frame" ELSE "return"]
  /\ EngineWorldUnchanged
  /\ UNCHANGED <<weapon, body, royale, ai, stepper, game>>

Idle(e, acc) ==
  [engine |-> e, accumulator |-> acc, ran |-> FALSE, dt |-> Zero, passes |-> 0]

\* the time the clock has advanced while the engine was running
Ran(e, d) == [e EXCEPT !.ranFor = @ + d]

\* engine.start(); gap ms pass between its reading of the clock and the
\* reading of the _gameLoop it calls
EngineStart(gap) ==
  /\ now + gap <= MaxEngineClock
  /\ engine.scheduled < MaxChains
  /\ EngineStep("start",
                IF engine.isRunning THEN Idle(engine, accumulator)
                ELSE gameLoop(Ran(resume(engine, now), gap), accumulator, now + gap),
                IF engine.isRunning THEN now ELSE now + gap)

\* engine.stop()
EngineStop ==
  EngineStep("stop", Idle([engine EXCEPT !.isRunning = FALSE], accumulator), now)

\* engine.pause()
EnginePause ==
  EngineStep("pause", Idle([engine EXCEPT !.isRunning = FALSE], accumulator), now)

\* engine.resume()
EngineResume(gap) ==
  /\ now + gap <= MaxEngineClock
  /\ engine.scheduled < MaxChains
  /\ EngineStep("resume",
                IF engine.isRunning THEN Idle(engine, accumulator)
                ELSE gameLoop(Ran(resume(engine, now), gap), accumulator, now + gap),
                IF engine.isRunning THEN now ELSE now + gap)

\* a scheduled frame callback fires: requestAnimationFrame(() => this._gameLoop())
EngineFrame ==
  /\ engine.scheduled > 0
  /\ EngineStep("frame",
                gameLoop([engine EXCEPT !.scheduled = @ - 1], accumulator, now), now)

\* d ms pass with no call on the engine
EngineWait(d) ==
  /\ now + d <= MaxEngineClock
  /\ EngineStep("wait",
                Idle(IF engine.isRunning THEN Ran(engine, d) ELSE engine, accumulator),
                now + d)

\* the ms between two calls: half a display frame, one display frame of a
\* 60 Hz screen (just over the fixed time step), and more than maxDeltaTime
Waits == {8, 17, 34}

NextEngine ==
  \/ \E gap \in {0, 1} : EngineStart(gap)
  \/ EngineStop
  \/ EnginePause
  \/ \E gap \in {0, 1} : EngineResume(gap)
  \/ EngineFrame
  \/ \E d \in Waits : EngineWait(d)

SpecEngine == InitEngine /\ [][NextEngine]_vars

\* C27: the deltaTime a frame gives to World.update is the time since the
\* last frame and never more than 1/30 s, and with the fixed time step of
\* 1/60 s the frame runs at most 2 fixed passes.
C27_ClampedDelta ==
  [][lastOp'.ret = "frame" =>
       LET span == now' - (IF engine.isRunning THEN engine.lastFrameTime ELSE now)
       IN /\ lastOp'.dt = engine'.deltaTime
          /\ AtLeast(MaxDeltaTime, lastOp'.dt)
          /\ AtLeast(Divide(span, 1000), lastOp'.dt)
          /\ lastOp'.dt # MaxDeltaTime => lastOp'.dt = Divide(span, 1000)
          /\ accumulator' = engine'.accumulator
          /\ ~AtLeast(accumulator', FixedDeltaTime)
          /\ lastOp'.passes <= 2]_vars

\* a frame that came more than 1/30 s after the last one was given 1/30 s and
\* ran 2 fixed passes
C27_Witness ==
  /\ lastOp.op = "frame"
  /\ lastOp.ret = "frame"
  /\ lastOp.dt = MaxDeltaTime
  /\ lastOp.passes = 2
  /\ accumulator # Zero
  /\ engine.measured > 34

\* C28: no World.update is performed while the engine is paused; the first
\* frame after resume() is the one resume() runs itself, with the time since
\* the reading resume() took, so that the clock differences the frames take
\* their deltaTime from never add up to more than the time the engine was
\* running; and pause changes nothing of the World, its accumulator included.
C28_PauseFreezesTime ==
  [][/\ lastOp'.ret = "frame" =>
          /\ engine'.isRunning
          /\ engine.isRunning \/ lastOp'.op \in {"start", "resume"}
     /\ ~engine.isRunning /\ lastOp'.op \notin {"start", "resume"} =>
          /\ lastOp'.ret # "frame"
          /\ accumulator' = accumulator
          /\ engine'.measured = engine.measured
     /\ lastOp'.op = "resume" /\ ~engine.isRunning =>
          /\ lastOp'.ret = "frame"
          /\ engine'.resumedAt = now
          /\ lastOp'.dt = ClampedDelta(now', now)
     /\ engine'.measured <= engine'.ranFor
     /\ lastOp'.op = "pause" =>
          /\ ~engine'.isRunning
          /\ accumulator' = accumulator
          /\ EngineWorldUnchanged]_vars

\* the engine was paused for longer than 1/30 s with a part of a step in the
\* accumulator, and resume() has run its frame
C28_Witness ==
  /\ lastOp.op = "resume"
  /\ lastOp.ret = "frame"
  /\ lastOp.dt = Divide(1, 1000)
  /\ engine.resumedAt - (engine.ranFor - 1) > 34
  /\ engine.measured > 1
  /\ accumulator # Zero

\* C33: whatever the order of start, pause, resume, stop and the firing of
\* scheduled frame callbacks, at most one frame callback is pending while the
\* engine runs (one frame chain is live), and none is left over that would
\* run a frame next to it.
C33_SingleFrameChain == engine.isRunning => engine.scheduled <= 1

(***************************************************************************)
(* The fixed timestep loop of World.update, one pass at a time: whether    *)
(* the loop ends is a question about a run, so each test of the loop       *)
(* condition is a step here. The numbers are the doubles of above.         *)
(***************************************************************************)

\* 3 * 2^-55, a fixedTimeStep below half the gap between 1.5 and the next
\* double under it
TinyStep == Quanta(0, 3)

\* 1.5
OneAndHalf == Quanta(3 * 2^24, 0)

\* the fixedTimeStep a World is constructed with: the constructor keeps what
\* it is given, 0 included
LoopTimeSteps == {Zero, TinyStep, Quanta(2^24, 0), One}

\* the deltaTime of an update of a World with that fixedTimeStep; with the
\* tiny step only those that need no more than a few passes, or no end
LoopDeltaTimes(fixedTimeStep) ==
  IF fixedTimeStep = TinyStep THEN {Zero, Quanta(0, 2), Quanta(0, 7), OneAndHalf}
  ELSE DeltaTimes

\* new World(fixedTimeStep), no update in progress
NewLoop(fixedTimeStep) ==
  [fixedTimeStep |-> fixedTimeStep, accumulator |-> Zero, pc |-> "idle",
   pass |-> FALSE, calls |-> 0]

InitLoop ==
  /\ FreshWorld
  /\ now = 0
  /\ lastOp = NoOp
  /\ weapon = NoWeapon
  /\ body = NoBody
  /\ royale = NoRoyale
  /\ ai = NoAI
  /\ engine = NoEngine
  /\ game = NoGame
  /\ \E f \in LoopTimeSteps : stepper = NewLoop(f)

LoopStep(op, next) ==
  /\ stepper' = next
  /\ lastOp' = [NoOp EXCEPT !.op = op]
  /\ FreshWorldUnchanged
  /\ UNCHANGED <<now, weapon, body, royale, ai, engine, game>>

\* world.update(deltaTime) up to the loop: this._accumulator += deltaTime
LoopEnter(deltaTime) ==
  /\ stepper.pc = "idle"
  /\ stepper.calls < MaxWorldUpdates
  /\ LoopStep("World.update",
              [stepper EXCEPT !.pc = "loop",
                              !.calls = @ + 1,
                              !.accumulator = RoundToDouble(Plus(@, deltaTime))])

\* the loop condition holds: one pass of fixedUpdate calls, then
\* this._accumulator -= this._fixedTimeStep; pass flips with every pass
LoopPass ==
  /\ stepper.pc = "loop"
  /\ AtLeast(stepper.accumulator, stepper.fixedTimeStep)
  /\ LoopStep("fixedUpdate",
              [stepper EXCEPT !.pass = ~@,
                              !.accumulator =
                                 RoundToDouble(Minus(@, stepper.fixedTimeStep))])

\* the loop condition fails: the late pass, and update returns
LoopExit ==
  /\ stepper.pc = "loop"
  /\ ~AtLeast(stepper.accumulator, stepper.fixedTimeStep)
  /\ LoopStep("return", [stepper EXCEPT !.pc = "idle"])

NextLoop ==
  \/ \E deltaTime \in LoopDeltaTimes(stepper.fixedTimeStep) : LoopEnter(deltaTime)
  \/ LoopPass
  \/ LoopExit

\* a call that has begun runs on: the thread is not taken from it
SpecLoop == InitLoop /\ [][NextLoop]_vars /\ WF_vars(LoopPass) /\ WF_vars(LoopExit)

\* C34: every World.update(dt) returns: the fixed timestep loop it has
\* entered is left after finitely many passes.
C34_UpdateTerminates == (stepper.pc = "loop") ~> (stepper.pc = "idle")

\* the bounds of the two ammunition counts of a weapon
AmmoInBounds(w) ==
  /\ 0 <= w.currentAmmo
  /\ w.currentAmmo <= w.stats.magazineSize
  /\ w.totalAmmo >= 0

\* C35: after every fire, startReload and updateReload the weapon has
\* 0 <= currentAmmo <= magazineSize and totalAmmo >= 0; no call changes
\* magazineSize; currentAmmo + totalAmmo falls by exactly 1 in a fire that
\* returns true and stays as it is in every other call, a completed reload
\* included.
C35_AmmoConservation ==
  [][/\ AmmoInBounds(weapon)
     /\ AmmoInBounds(weapon')
     /\ weapon'.stats = weapon.stats
     /\ weapon'.currentAmmo + weapon'.totalAmmo
          = weapon.currentAmmo + weapon.totalAmmo
            - (IF lastOp'.op = "fire" /\ lastOp'.ret = "true" THEN 1 ELSE 0)]_vars

\* a reload has completed with less in the reserve than the magazine lacked
C35_Witness ==
  /\ lastOp.op = "updateReload"
  /\ ~weapon.isReloading
  /\ weapon.totalAmmo = 0
  /\ weapon.currentAmmo < weapon.stats.magazineSize
  /\ weapon.reloadStartTime > 0
  /\ now - weapon.reloadStartTime >= weapon.stats.reloadTime10 * 100

(***************************************************************************)
(* WeaponSystem: one member entity whose WeaponComponent is `weapon`.       *)
(* The system reads its World from its property world, which the           *)
(* repository never assigns; both the system as built and the system       *)
(* whose host has assigned the property (and has put the WeaponComponent,   *)
(* which the World cannot attach, into the entity's component map) are     *)
(* specified.                                                              *)
(***************************************************************************)

\* new CollisionComponent(...) has no getComponentType: world.addComponent
\* throws a TypeError on it
CollisionAttachable == FALSE

\* WeaponSystem.fireWeapon(entityId, transform, weapon, currentTime, world):
\* [weapon, created, threw]
fireWeapon(w, currentTime) ==
  LET r == fire(w, currentTime)
  IN IF ~r.ret THEN [weapon |-> r.weapon, created |-> 0, threw |-> FALSE]
     ELSE [weapon |-> r.weapon, created |-> 1, threw |-> ~CollisionAttachable]

\* WeaponSystem.onUpdate for the member entity, with the input state given
WeaponSystemOnUpdate(w, world, currentTime, input) ==
  IF world = "undefined" THEN [weapon |-> w, created |-> 0, threw |-> TRUE]
  ELSE LET w1 == IF input.reload THEN startReload(w, currentTime) ELSE w
           w2 == updateReload(w1, currentTime)
       IN IF input.fire /\ canFire(w2, currentTime) THEN fireWeapon(w2, currentTime)
          ELSE [weapon |-> w2, created |-> 0, threw |-> FALSE]

\* InputComponent.state, the two keys WeaponSystem reads
InputStates == [fire : BOOLEAN, reload : BOOLEAN]

\* a WeaponSystem with one member entity: the property world of the system,
\* and what its last update did
NewWeaponSystem(world) == [world |-> world, created |-> 0, threw |-> FALSE]

InitWeaponSystem ==
  /\ FreshWorld
  /\ now = 0
  /\ lastOp = NoOp
  /\ body = NoBody
  /\ royale = NoRoyale
  /\ ai = NoAI
  /\ stepper = NoStepper
  /\ engine = NoEngine
  /\ weapon = NewWeapon("sniper")
  /\ \E world \in {SystemWorld, HostWorld} : game = NewWeaponSystem(world)

\* weaponSystem.update(dt) at the reading t
WeaponSystemUpdate(t, input) ==
  LET r == WeaponSystemOnUpdate(weapon, game.world, t, input)
  IN /\ weapon' = r.weapon
     /\ game' = [game EXCEPT !.created = r.created, !.threw = r.threw]
     /\ now' = t
     /\ lastOp' = [NoOp EXCEPT !.op = "WeaponSystem.update"]
     /\ FreshWorldUnchanged
     /\ UNCHANGED <<body, royale, ai, stepper, engine>>

NextWeaponSystem ==
  \/ \E t \in WeaponReadings : WeaponFire(t)
  \/ \E t \in WeaponReadings : WeaponStartReload(t)
  \/ \E t \in WeaponReadings : WeaponUpdateReload(t)
  \/ \E t \in WeaponReadings, input \in InputStates : WeaponSystemUpdate(t, input)

SpecWeaponSystem == InitWeaponSystem /\ [][NextWeaponSystem]_vars

\* the rounds a weapon holds, magazine and reserve
Rounds(w) == w.currentAmmo + w.totalAmmo

\* C36: a fire called while the weapon reloads or its magazine is empty
\* returns false and leaves currentAmmo, totalAmmo, lastFireTime and
\* isReloading as they were; an update of WeaponSystem creates one projectile
\* entity for the round a successful fire took and none when no round was
\* taken.
C36_RefusedFireAndProjectiles ==
  [][/\ (lastOp'.op = "fire" /\ (weapon.isReloading \/ weapon.currentAmmo = 0)) =>
          /\ lastOp'.ret = "false"
          /\ weapon'.currentAmmo = weapon.currentAmmo
          /\ weapon'.totalAmmo = weapon.totalAmmo
          /\ weapon'.lastFireTime = weapon.lastFireTime
          /\ weapon'.isReloading = weapon.isReloading
     /\ lastOp'.op = "WeaponSystem.update" =>
          /\ game'.created = Rounds(weapon) - Rounds(weapon')
          /\ game'.created \in {0, 1}
          /\ game'.created = 1 => weapon'.lastFireTime = now']_vars

\* an update of the system has fired the last round of the magazine: one
\* projectile was created and the weapon reloads, so that the next fire is
\* refused
C36_Witness ==
  /\ lastOp.op = "WeaponSystem.update"
  /\ game.created = 1
  /\ weapon.isReloading
  /\ weapon.currentAmmo = 0

(***************************************************************************)
(* HealthComponent on its own: takeDamage, heal and revive called in any   *)
(* order at clock readings that never run back.                            *)
(***************************************************************************)

MaxHealthClock == 2000

\* the values of maxHealth given to the constructor
MaxHealths == {3}

\* the amounts of damage and of healing
Amounts == {0, 1, 2, 5}

\* new HealthComponent(maxHealth)
NewHealth(maxHealth) ==
  [currentHealth |-> maxHealth, maxHealth |-> maxHealth, isDead |-> FALSE,
   lastDamageTime |-> 0]

\* HealthComponent.heal(amount)
heal(h, amount) == [h EXCEPT !.currentHealth = Min(h.maxHealth, h.currentHealth + amount)]

\* HealthComponent.revive()
revive(h) == [h EXCEPT !.currentHealth = h.maxHealth, !.isDead = FALSE]

InitHealth ==
  /\ FreshWorld
  /\ now = 0
  /\ lastOp = NoOp
  /\ weapon = NoWeapon
  /\ body = NoBody
  /\ royale = NoRoyale
  /\ ai = NoAI
  /\ stepper = NoStepper
  /\ engine = NoEngine
  /\ \E maxHealth \in MaxHealths : game = NewHealth(maxHealth)

\* what a call on the component leaves behind
HealthStep(op, h, amount, ret, t) ==
  /\ game' = h
  /\ now' = t
  /\ lastOp' = [NoOp EXCEPT !.op = op, !.dt = amount, !.ret = ret]
  /\ FreshWorldUnchanged
  /\ UNCHANGED <<weapon, body, royale, ai, stepper, engine>>

\* the readings of performance.now() of the next call
HealthReadings == {t \in {now, now + 250, now + 500} : t <= MaxHealthClock}

\* health.takeDamage(damage) at the reading t
HealthTakeDamage(damage, t) ==
  LET r == takeDamage(game, damage, t)
  IN HealthStep("takeDamage", r.player, damage, IF r.died THEN "true" ELSE "false", t)

\* health.heal(amount)
HealthHeal(amount, t) == HealthStep("heal", heal(game, amount), amount, "void", t)

\* health.revive()
HealthRevive(t) == HealthStep("revive", revive(game), 0, "void", t)

NextHealth ==
  \/ \E damage \in Amounts, t \in HealthReadings : HealthTakeDamage(damage, t)
  \/ \E amount \in Amounts, t \in HealthReadings : HealthHeal(amount, t)
  \/ \E t \in HealthReadings : HealthRevive(t)

SpecHealth == InitHealth /\ [][NextHealth]_vars

\* C38: after every takeDamage, heal and revive the component has
\* 0 <= currentHealth <= maxHealth, and isDead holds exactly when
\* currentHealth = 0; a takeDamage less than 500 ms after the last applied
\* damage changes nothing.
C38_HealthConsistent ==
  [][/\ 0 <= game'.currentHealth
     /\ game'.currentHealth <= game'.maxHealth
     /\ game'.isDead <=> game'.currentHealth = 0
     /\ (lastOp'.op = "takeDamage" /\ now' - game.lastDamageTime < InvulnerabilityTime)
          => game' = game]_vars

\* the execution order o holds exactly the instances of the registry regd,
\* each once and at most one per name, sorted by priority
OrderMatchesRegistry(o, regd) ==
  /\ SeqElems(o) = SeqElems(regd)
  /\ Len(o) = Len(regd)
  /\ \A i, j \in 1..Len(o) : i # j => SystemName(o[i]) # SystemName(o[j])
  /\ \A i, j \in 1..Len(o) : i < j => Compare(o[i], o[j]) <= 0

\* C37: after every addSystem and removeSystem, an addSystem under a
\* registered name included, the execution order holds exactly the systems of
\* the registry, each once, at most one per name, sorted by priority; the
\* instance such an addSystem replaced is out of both, and every later update
\* calls update, fixedUpdate and lateUpdate on the instances of the registry
\* only.
C37_OrderMatchesRegistry ==
  [][/\ OrderMatchesRegistry(systemOrder', systems')
     /\ (IsCall("addSystem") /\ KeyIndex(systems, lastOp'.name) # 0) =>
          LET old == systems[KeyIndex(systems, lastOp'.name)]
          IN /\ lastOp'.sys \in SeqElems(systemOrder')
             /\ old # lastOp'.sys => old \notin SeqElems(systemOrder') \cup SeqElems(systems')
     /\ IsCall("update") =>
          \A i \in 1..Len(calls') :
            StepOf(calls'[i]) > 0 =>
              /\ calls'[i].sys \in SeqElems(systems)
              /\ \A r \in SysIds \ SeqElems(systems) : calls'[i].sys # r]_vars

\* an update has run the systems after an addSystem replaced the instance
\* registered first: the newest instance holds the first key of the registry
C37_Witness ==
  /\ lastOp.op = "update"
  /\ Len(systems) >= 2
  /\ addOrder[Len(addOrder)] = systems[1]
  /\ \E i \in 1..Len(calls) : StepOf(calls[i]) > 0 /\ calls[i].sys = systems[1]

(***************************************************************************)
(* HealthSystem in a World with one entity that carries a HealthComponent. *)
(* The callbacks handleDeath hands to setTimeout are held with the clock   *)
(* reading at which they fall due; the host calls World.update, lets time  *)
(* pass and runs the callbacks that are due. Both the system as built and  *)
(* the one whose host has assigned the property world are specified.       *)
(***************************************************************************)

MaxGameClock == 5000
MaxTimers == 3

\* the delay handleDeath gives to setTimeout, in ms
CleanupDelay == 2000

EntityNames == {"Player", "Enemy"}

\* a World with a HealthSystem and one entity that is a member of it
NewHealthWorld(world, name) ==
  [world |-> world, name |-> name, isDead |-> FALSE, exists |-> TRUE, active |-> TRUE,
   pendingRemoval |-> FALSE, member |-> TRUE, timers |-> <<>>, purges |-> 0,
   threw |-> FALSE]

InitHealthSystem ==
  /\ FreshWorld
  /\ now = 0
  /\ lastOp = NoOp
  /\ weapon = NoWeapon
  /\ body = NoBody
  /\ royale = NoRoyale
  /\ ai = NoAI
  /\ stepper = NoStepper
  /\ engine = NoEngine
  /\ \E world \in {SystemWorld, HostWorld}, name \in EntityNames :
       game = NewHealthWorld(world, name)

\* World._processPendingChanges for the entity: a pending removal takes it
\* out of the systems and out of the registry
PurgeEntity(g) ==
  IF g.pendingRemoval
  THEN [g EXCEPT !.pendingRemoval = FALSE, !.member = FALSE, !.exists = FALSE,
                 !.purges = @ + 1]
  ELSE g

\* HealthSystem.handleDeath(entityId, health, world) at the reading t
handleDeath(g, t) ==
  IF g.exists /\ g.name = "Player" THEN g
  ELSE [g EXCEPT !.timers = Append(@, t + CleanupDelay)]

\* HealthSystem.onUpdate inside System.update's guard and try/catch
HealthOnUpdate(g, t) ==
  IF ~g.member THEN [g EXCEPT !.threw = FALSE]
  ELSE IF g.world = "undefined" THEN [g EXCEPT !.threw = TRUE]
  ELSE IF g.isDead THEN [handleDeath(g, t) EXCEPT !.threw = FALSE]
  ELSE [g EXCEPT !.threw = FALSE]

\* what a call leaves behind
HealthWorldStep(op, g, t) ==
  /\ game' = g
  /\ now' = t
  /\ lastOp' = [NoOp EXCEPT !.op = op]
  /\ FreshWorldUnchanged
  /\ UNCHANGED <<weapon, body, royale, ai, stepper, engine>>

\* world.update(dt): the pending changes, then the systems
HealthWorldUpdate ==
  /\ Len(game.timers) < MaxTimers
  /\ HealthWorldStep("World.update", HealthOnUpdate(PurgeEntity(game), now), now)

\* a lethal takeDamage on the entity's HealthComponent
HealthDies ==
  /\ ~game.isDead
  /\ HealthWorldStep("takeDamage", [game EXCEPT !.isDead = TRUE], now)

\* the callback of handleDeath that was scheduled first, once it is due:
\* if (world.hasEntity(entityId)) world.destroyEntity(entityId)
CleanupCallback ==
  /\ game.timers # <<>>
  /\ game.timers[1] <= now
  /\ HealthWorldStep("callback",
                     IF game.exists
                     THEN [game EXCEPT !.timers = Tail(@), !.pendingRemoval = TRUE,
                                       !.active = FALSE]
                     ELSE [game EXCEPT !.timers = Tail(@)],
                     now)

\* one second passes
HealthWorldTick ==
  /\ now + 1000 <= MaxGameClock
  /\ HealthWorldStep("tick", game, now + 1000)

NextHealthSystem ==
  \/ HealthWorldUpdate
  \/ HealthDies
  \/ CleanupCallback
  \/ HealthWorldTick

SpecHealthSystem == InitHealthSystem /\ [][NextHealthSystem]_vars

\* C39: every World.update in which a dead entity not named 'Player' is a
\* member of HealthSystem schedules one more destroy callback; the entity is
\* purged at most once; and a callback that fires when the entity is purged
\* changes nothing of the World.
C39_DeadEntityCleanup ==
  [][/\ (/\ lastOp'.op = "World.update"
         /\ game.member /\ ~game.pendingRemoval
         /\ game.isDead /\ game.name # "Player")
          => Len(game'.timers) = Len(game.timers) + 1
     /\ game'.purges <= 1
     /\ (lastOp'.op = "callback" /\ ~game.exists)
          => game' = [game EXCEPT !.timers = Tail(@)]]_vars

(***************************************************************************)
(* DestructionSystem in a World with one destructible entity that is a     *)
(* member of it. Other code damages the entity through triggerDestruction  *)
(* or through the component; the host calls World.update. Both the system  *)
(* as built and the one whose host has assigned the property world are     *)
(* specified.                                                              *)
(***************************************************************************)

\* how far below zero the health of a destructible is followed
MaxOverkill == 2

\* the values of health and of debrisCount given to the constructor
DestructibleHealths == {1, 3}
DebrisCounts == {0, 2, 5}

\* the amounts of damage
Damages == {0, 1, 2}

\* new DestructibleComponent(health, fracturePoints, debrisCount) on an
\* entity that is a member of the DestructionSystem
NewDestructible(world, health, debrisCount) ==
  [world |-> world, health |-> health, debrisCount |-> debrisCount, destroyed |-> FALSE,
   exists |-> TRUE, pendingRemoval |-> FALSE, member |-> TRUE,
   debris |-> 0, purges |-> 0, reports |-> 0, threw |-> FALSE]

InitDestruction ==
  /\ FreshWorld
  /\ now = 0
  /\ lastOp = NoOp
  /\ weapon = NoWeapon
  /\ body = NoBody
  /\ royale = NoRoyale
  /\ ai = NoAI
  /\ stepper = NoStepper
  /\ engine = NoEngine
  /\ \E world \in {SystemWorld, HostWorld}, health \in DestructibleHealths,
        debrisCount \in DebrisCounts :
       game = NewDestructible(world, health, debrisCount)

\* DestructibleComponent.takeDamage(damage), with the number of times it has
\* returned true
DestructibleTakeDamage(g, damage) ==
  LET h == g.health - damage
  IN IF h <= 0 /\ ~g.destroyed
     THEN [g EXCEPT !.health = h, !.destroyed = TRUE, !.reports = @ + 1]
     ELSE [g EXCEPT !.health = h]

\* DestructionSystem.handleDestruction: createDebris, then world.destroyEntity
handleDestruction(g) ==
  [g EXCEPT !.debris = @ + g.debrisCount, !.pendingRemoval = TRUE]

\* DestructionSystem.onUpdate inside System.update's guard and try/catch
DestructionOnUpdate(g) ==
  IF ~g.member THEN [g EXCEPT !.threw = FALSE]
  ELSE IF g.world = "undefined" THEN [g EXCEPT !.threw = TRUE]
  ELSE IF g.destroyed THEN [handleDestruction(g) EXCEPT !.threw = FALSE]
  ELSE [g EXCEPT !.threw = FALSE]

\* what a call leaves behind
DestructionStep(op, g, ret) ==
  /\ game' = g
  /\ lastOp' = [NoOp EXCEPT !.op = op, !.ret = ret]
  /\ FreshWorldUnchanged
  /\ UNCHANGED <<now, weapon, body, royale, ai, stepper, engine>>

\* world.update(dt): the pending changes, then the systems
DestructionWorldUpdate ==
  DestructionStep("World.update", DestructionOnUpdate(PurgeEntity(game)), "void")

\* destructible.takeDamage(damage), called on the component
DestructibleDamaged(damage) ==
  /\ game.health > 0 - MaxOverkill
  /\ LET g == DestructibleTakeDamage(game, damage)
     IN DestructionStep("takeDamage", g, IF g.reports > game.reports THEN "true" ELSE "false")

\* destructionSystem.triggerDestruction(entityId, damage): the system reads
\* its world first
TriggerDestruction(damage) ==
  /\ game.health > 0 - MaxOverkill
  /\ IF game.world = "undefined"
     THEN DestructionStep("triggerDestruction", game, "throws")
     ELSE IF ~game.exists THEN DestructionStep("triggerDestruction", game, "false")
     ELSE LET g == DestructibleTakeDamage(game, damage)
          IN DestructionStep("triggerDestruction", g,
                             IF g.reports > game.reports THEN "true" ELSE "false")

NextDestruction ==
  \/ DestructionWorldUpdate
  \/ \E damage \in Damages : DestructibleDamaged(damage)
  \/ \E damage \in Damages : TriggerDestruction(damage)

SpecDestruction == InitDestruction /\ [][NextDestruction]_vars

\* C32: the World.update in which a destructible member has health at or
\* below zero creates debrisCount debris entities and destroys the entity;
\* over the whole run no more than debrisCount debris entities are created
\* for it and it is purged at most once; and takeDamage returns true at most
\* once.
C32_DestroyedOnce ==
  [][/\ (lastOp'.op = "World.update" /\ game.member /\ ~game.pendingRemoval
                                     /\ game.health <= 0)
          => /\ game'.debris = game.debris + game.debrisCount
             /\ game'.pendingRemoval
     /\ game'.debris <= game'.debrisCount
     /\ game'.purges <= 1
     /\ game'.reports <= 1]_vars

(***************************************************************************)
(* CollisionSystem in a World with three entities that carry a Transform,  *)
(* a CollisionComponent and, the targets, a HealthComponent. Positions are *)
(* on one axis, lengths in tenths of a unit. The host calls World.update   *)
(* at clock readings that never run back. Both the system as built and the *)
(* one whose host has assigned the property world are specified.           *)
(***************************************************************************)

MaxColliders == 3
MaxCollisionClock == 6000

\* CollisionComponent.lifetime, in ms
Lifetime == 5000

\* the radius WeaponSystem gives a projectile (0.1) and the default radius (0.5)
ProjectileRadius == 1
DefaultRadius == 5

\* the positions of the entities
Positions == {0, 1, 7, 20}

\* new CollisionComponent(radius, isProjectile, damage) at the reading 0, on an
\* entity at position x that is a member of the CollisionSystem; damaged and
\* victims count the takeDamage calls the entity has received and caused
NewCollider(isProjectile, x) ==
  [isProjectile |-> isProjectile, x |-> x,
   radius |-> IF isProjectile THEN ProjectileRadius ELSE DefaultRadius,
   createdAt |-> 0, exists |-> TRUE, pendingRemoval |-> FALSE, member |-> TRUE,
   damaged |-> 0, victims |-> 0]

InitCollision ==
  /\ FreshWorld
  /\ now = 0
  /\ lastOp = NoOp
  /\ weapon = NoWeapon
  /\ body = NoBody
  /\ royale = NoRoyale
  /\ ai = NoAI
  /\ stepper = NoStepper
  /\ engine = NoEngine
  /\ \E world \in {SystemWorld, HostWorld}, n \in 2..MaxColliders :
       \E kinds \in [1..n -> BOOLEAN], xs \in [1..n -> Positions] :
         game = [world |-> world, threw |-> FALSE,
                 colliders |-> [i \in 1..n |-> NewCollider(kinds[i], xs[i])]]

\* n / d rounded to the nearest integer, ties to even
RoundHalfEven(n, d) ==
  LET k == n \div d
      r == n % d
  IN IF 2 * r > d \/ (2 * r = d /\ k % 2 = 1) THEN k + 1 ELSE k

\* the Float32 that Vector3 stores for a coordinate of t tenths, in units of
\* 2^-27: t / 10 rounded to 24 significant bits, ties to even
ToFloat32(t) ==
  LET n == t * 2^26
      ulp == IF BitLength(n \div 5) > 24 THEN 2^(BitLength(n \div 5) - 24) ELSE 1
  IN RoundHalfEven(n, 5 * ulp) * ulp

\* the least number of units of 2^-27 that is not below the double
\* radiusA + radiusB, the radii in tenths: the double differs from the exact sum
\* by less than one unit's fraction
RadiiSum(ra, rb) == ((ra + rb) * 2^26 + 4) \div 5

\* transformA.position.distance(transformB.position) < radiusA + radiusB: the
\* distance of two stored coordinates is exact in doubles
Overlap(a, b) ==
  LET xa == ToFloat32(a.x)
      xb == ToFloat32(b.x)
  IN (IF xa > xb THEN xa - xb ELSE xb - xa) < RadiiSum(a.radius, b.radius)

\* collisionA.isProjectile && currentTime - createdAt > lifetime
Expired(c, currentTime) == c.isProjectile /\ currentTime - c.createdAt > Lifetime

\* CollisionSystem.handleProjectileHit(projectileId, targetId, ...): the
\* target's health.takeDamage is called, then world.destroyEntity(projectileId)
handleProjectileHit(cs, p, t) ==
  [cs EXCEPT ![t].damaged = @ + 1, ![p].victims = @ + 1, ![p].pendingRemoval = TRUE]

\* CollisionSystem.handleCollision(entityA, entityB, ...)
handleCollision(cs, a, b) ==
  IF cs[a].isProjectile /\ ~cs[b].isProjectile THEN handleProjectileHit(cs, a, b)
  ELSE IF cs[b].isProjectile /\ ~cs[a].isProjectile THEN handleProjectileHit(cs, b, a)
  ELSE cs

\* the inner loop of onUpdate for entity i, from entity j on
RECURSIVE InnerLoop(_, _, _)
InnerLoop(cs, i, j) ==
  IF j > Len(cs) THEN cs
  ELSE IF ~cs[j].member THEN InnerLoop(cs, i, j + 1)
  ELSE InnerLoop(IF Overlap(cs[i], cs[j]) THEN handleCollision(cs, i, j) ELSE cs, i, j + 1)

\* the outer loop of onUpdate, from entity i on
RECURSIVE OuterLoop(_, _, _)
OuterLoop(cs, i, currentTime) ==
  IF i > Len(cs) THEN cs
  ELSE IF ~cs[i].member THEN OuterLoop(cs, i + 1, currentTime)
  ELSE IF Expired(cs[i], currentTime)
  THEN OuterLoop([cs EXCEPT ![i].pendingRemoval = TRUE], i + 1, currentTime)
  ELSE OuterLoop(InnerLoop(cs, i, i + 1), i + 1, currentTime)

\* CollisionSystem.onUpdate inside System.update's guard and try/catch
CollisionOnUpdate(g, currentTime) ==
  IF \A i \in 1..Len(g.colliders) : ~g.colliders[i].member THEN [g EXCEPT !.threw = FALSE]
  ELSE IF g.world = "undefined" THEN [g EXCEPT !.threw = TRUE]
  ELSE [g EXCEPT !.threw = FALSE, !.colliders = OuterLoop(g.colliders, 1, currentTime)]

\* World._processPendingChanges for the entities of the CollisionSystem
PurgeColliders(cs) ==
  [i \in 1..Len(cs) |->
     IF cs[i].pendingRemoval
     THEN [cs[i] EXCEPT !.pendingRemoval = FALSE, !.member = FALSE, !.exists = FALSE]
     ELSE cs[i]]

\* the readings of performance.now() at the next update
CollisionReadings == {t \in {now, now + 3000} : t <= MaxCollisionClock}

\* world.update(dt) at the reading t: the pending changes, then the systems
CollisionWorldUpdate(t) ==
  /\ game' = CollisionOnUpdate([game EXCEPT !.colliders = PurgeColliders(@)], t)
  /\ now' = t
  /\ lastOp' = [NoOp EXCEPT !.op = "World.update"]
  /\ FreshWorldUnchanged
  /\ UNCHANGED <<weapon, body, royale, ai, stepper, engine>>

NextCollision == \E t \in CollisionReadings : CollisionWorldUpdate(t)

SpecCollision == InitCollision /\ [][NextCollision]_vars

\* entity i is a member of the system that the next update will check
Checked(c, currentTime) == c.member /\ ~c.pendingRemoval /\ ~Expired(c, currentTime)

\* C31: in every World.update, a projectile and a non-projectile that are
\* checked and closer than the sum of their radii: the target receives the
\* damage and the projectile is marked destroyed; an entity that overlaps no
\* collider of the other kind receives no damage and is not destroyed (unless
\* its lifetime is over); an entity marked destroyed is out of the World and
\* of the system after the update; and no projectile ever damages more than
\* one target.
C31_ProjectileHits ==
  [][lastOp'.op = "World.update" =>
       LET cs == game.colliders
           ds == game'.colliders
           Hits(i, j) == /\ i # j
                         /\ Checked(cs[i], now') /\ Checked(cs[j], now')
                         /\ cs[i].isProjectile /\ ~cs[j].isProjectile
                         /\ Overlap(cs[i], cs[j])
       IN \A i \in 1..Len(cs) :
            /\ \A j \in 1..Len(cs) :
                 Hits(i, j) => ds[j].damaged > cs[j].damaged /\ ds[i].pendingRemoval
            /\ (~\E j \in 1..Len(cs) : Hits(i, j) \/ Hits(j, i)) =>
                 /\ ds[i].damaged = cs[i].damaged
                 /\ ds[i].pendingRemoval => Expired(cs[i], now')
            /\ cs[i].pendingRemoval => ~ds[i].exists /\ ~ds[i].member
            /\ ds[i].victims <= 1]_vars

====
